---- MODULE Spec2Model ----
(***************************************************************************)
(* Subtitle acquisition and normalization pipeline of Bili_Youtube_        *)
(* summarizer: the caption-track fallback chain and the download           *)
(* strategies of BilibiliAPI, the platform adapters and the orchestrator   *)
(* of subtitle_extractor.py, the embedded-JSON brace scanner and the       *)
(* timestamp formatters.                                                   *)
(*                                                                         *)
(* Conventions.  Python None is the string "None".  A text (URL, page,     *)
(* language code) is a sequence of tokens; punctuation that the code       *)
(* inspects ("/", "{", "\"", ...) is always a token of its own.  An HTTP   *)
(* response is a record describing the outcome of requests.get,            *)
(* raise_for_status and response.json and the shape of the parsed body.    *)
(* A Python exception that leaves the modelled function is pc = "raised".  *)
(***************************************************************************)
EXTENDS Integers, Sequences, FiniteSets, TLC

VARIABLES
    entry,        \* the operation that was called
    pc,           \* position inside the running operation
    aid,          \* get_subtitle_list argument aid  ("None" when absent)
    cid,          \* get_subtitle_list argument cid
    bvid,         \* get_subtitle_list argument bvid
    cand,         \* index of the endpoint candidate the loop is at (1..4)
    lastResp,     \* the response to the last caption-track-list request
    listResult,   \* return value of get_subtitle_list
    dlArg,        \* get_subtitle_content argument subtitle_url
    dlUrl,        \* subtitle_url after the relative-URL rewriting
    strat,        \* index of the request strategy the loop is at (1..3)
    lastDl,       \* the response to the last download request
    lastError,    \* last_error of get_subtitle_content
    dlResult,     \* return value of get_subtitle_content
    requests,     \* every HTTP request issued so far, in order
    responses,    \* the transport outcome ("ok" or the failure) of each request
    diag,         \* diagnostic messages printed so far, in order
    video_url,    \* extract_subtitles argument video_url
    adapters,     \* SubtitleExtractor.adapters (<<>> until first use)
    adapter,      \* name of the adapter _pick_adapter selected
    direct,       \* the Bilibili adapter took the direct-link branch
    videoId,      \* video_id the adapter extracted from the URL
    videoData,    \* the metadata response fetch_subtitle_bundle kept
    metaResp,     \* what get_video_info read of its last response
    subMeta,      \* subtitle_meta: the caption track that was selected
    fetchOutcome, \* how the adapter's fetch_subtitle_bundle ended
    video_info,   \* video_info of the bundle the adapter returned
    result,       \* return value of extract_subtitles
    text,         \* _extract_json_object_by_marker argument text
    marker,       \* _extract_json_object_by_marker argument marker
    brace_start,  \* position of the opening brace (1-based, 0: not found)
    idx,          \* position the scan is at
    depth,        \* brace depth
    in_string,    \* the scan is inside a string literal
    escape,       \* the previous character was a backslash inside a string
    jsonResult,   \* return value of _extract_json_object_by_marker
    seconds,      \* argument of a timestamp formatter, in ticks
    tsFormat,     \* the formatter that was called
    stamp,        \* the string the formatter returned
    player,       \* the player response parsed from the watch page
    ytTrack,      \* the caption track _pick_caption_track selected
    caption,      \* the response to the caption request
    captionBody,  \* return value of _download_caption_track
    body,         \* _format_subtitle_body argument body
    subtitle_format, \* _format_subtitle_body argument subtitle_format
    formatted,    \* return value of _format_subtitle_body
    text_content, \* return value of _extract_text_content
    heap,         \* the dict objects of the cookie loader: object id -> mapping
    browser_cookie_cache, \* Config._browser_cookie_cache: an object id, 0 for None
    returns,      \* what each call of the loader returned: object and value
    readerCalls,  \* number of browser readers invoked so far
    max_retries,  \* retry_on_failure argument max_retries
    exceptions,   \* retry_on_failure argument exceptions: the classes it catches
    attempt,      \* the wrapper's loop variable
    last_exception, \* the wrapper's last_exception ("None" before a failure)
    calls,        \* what each invocation of the wrapped function did
    retryOutcome, \* how the wrapper's call ended
    cacheFile,    \* what the subtitle cache file of the identifier holds
    subtitle_cache_hit, \* main's subtitle_cache_hit
    cookieReads,  \* number of calls of Config.get_cookies
    adapterBuilds \* number of times the adapter list was created

callVars == <<entry, pc>>
listVars == <<aid, cid, bvid, cand, lastResp, listResult>>
dlVars   == <<dlArg, dlUrl, strat, lastDl, lastError, dlResult>>
netVars  == <<requests, responses>>
pipeVars == <<video_url, adapters, adapter, direct, videoId, videoData, metaResp, subMeta,
              fetchOutcome, video_info, result>>

scanVars == <<text, marker, brace_start, idx, depth, in_string, escape, jsonResult>>

tsVars == <<seconds, tsFormat, stamp>>

ytVars == <<player, ytTrack, caption, captionBody>>

renderVars == <<body, subtitle_format, formatted, text_content>>

cookieVars == <<heap, browser_cookie_cache, returns, readerCalls>>

\* the variables of Config and of main
retryVars == <<max_retries, exceptions, attempt, last_exception, calls, retryOutcome>>

mainVars == <<cacheFile, subtitle_cache_hit, cookieReads, adapterBuilds>>

extVars == <<cookieVars, retryVars, mainVars>>

vars == <<callVars, listVars, dlVars, netVars, diag, pipeVars, scanVars, tsVars, ytVars, renderVars,
          extVars>>

\* Python None where a text (an identifier) is expected
None == <<"None">>

----------------------------------------------------------------------------
(* Generic text helpers (str.startswith, the `in` operator, str.find).     *)

StartsWith(s, p) ==
    /\ Len(p) <= Len(s)
    /\ SubSeq(s, 1, Len(p)) = p

\* p occurs in s at (1-based) position i
OccursAt(s, p, i) ==
    /\ i >= 1
    /\ i + Len(p) - 1 <= Len(s)
    /\ SubSeq(s, i, i + Len(p) - 1) = p

Contains(s, p) == \E i \in 1..(Len(s) + 1) : OccursAt(s, p, i)

----------------------------------------------------------------------------
(* BilibiliAPI: hosts, endpoints, caption tracks, responses.               *)

BaseUrl == <<"https:", "/", "/", "api.bilibili.com">>

\* endpoint_candidates of get_subtitle_list: (url, name of the identifier key)
EndpointCandidates ==
    LET wbi == BaseUrl \o <<"/", "x", "/", "player", "/", "wbi", "/", "v2">>
        v2  == BaseUrl \o <<"/", "x", "/", "player", "/", "v2">>
    IN  << [url |-> wbi, idKey |-> "aid"],
           [url |-> wbi, idKey |-> "bvid"],
           [url |-> v2,  idKey |-> "aid"],
           [url |-> v2,  idKey |-> "bvid"] >>

\* A caption track as advertised by the track list.
\*   kind:   "obj" a JSON object, "notdict" any other JSON value
\*   lanKey: whether the key lan is "present", "missing" or "null"
\*   lan:    its value, a sequence of characters
\*   urlKey: whether the key subtitle_url is present
\*   url:    its value (<<>> is the empty string)
Track(kind, lanKey, lan, urlKey, url) ==
    [kind |-> kind, lanKey |-> lanKey, lan |-> lan, urlKey |-> urlKey, url |-> url]

CdnHost == "aisubtitle.hdslb.com"

\* subtitle_url values: a full URL, a protocol-relative one, a bare path
SubtitleUrl ==
    [absolute |-> <<"https:", "/", "/", CdnHost, "/", "bfs", "/", "ai_subtitle", "/", "a.json">>,
     protoRel |-> <<"/", "/", CdnHost, "/", "bfs", "/", "ai_subtitle", "/", "b.json">>,
     pathOnly |-> <<"/", "bfs", "/", "ai_subtitle", "/", "c.json">>,
     otherHost |-> <<"/", "/", "i0.hdslb.com", "/", "bfs", "/", "subtitle", "/", "d.json">>,
     http     |-> <<"http:", "/", "/", "i0.hdslb.com", "/", "bfs", "/", "subtitle", "/", "e.json">>]

\* lan values
Lan ==
    [aiZh |-> <<"a", "i", "-", "z", "h">>,
     zh   |-> <<"z", "h", "-", "C", "N">>,
     aiUp |-> <<"A", "I", "-", "e", "n">>]

\* the tracks a list is made of
TrackKind ==
    [ai      |-> Track("obj", "present", Lan.aiZh, "present", SubtitleUrl.protoRel),
     zh      |-> Track("obj", "present", Lan.zh,   "present", SubtitleUrl.absolute),
     aiUp    |-> Track("obj", "present", Lan.aiUp, "present", SubtitleUrl.pathOnly),
     lanNull |-> Track("obj", "null",    <<>>,     "present", SubtitleUrl.absolute),
     empty   |-> Track("obj", "present", Lan.zh,   "present", <<>>),
     noUrl   |-> Track("obj", "present", Lan.aiZh, "missing", <<>>),
     bad     |-> Track("notdict", "missing", <<>>, "missing", <<>>)]

\* longest track list a response carries
MaxTracks == 2

TrackLists ==
    UNION { [1..n -> { TrackKind[k] : k \in DOMAIN TrackKind }] : n \in 0..MaxTracks }

\* Response to a caption-track-list request.
\*   net:       "ok", or "transport" (requests.get / raise_for_status raised,
\*              timeout included), or "badjson" (response.json() raised)
\*   top:       shape of the parsed body: "obj" (non-empty object), "null",
\*              "empty" ({} or []), "nonobj" (non-empty list, string, number)
\*   code:      value of key code: "zero", "nonzero", "missing"
\*   data, subtitle: value of the key: "obj", "missing", "null", "wrong"
\*   subtitles: value of the key: "list", "missing", "null", "wrong"
\*   tracks:    the elements of subtitles when it is a list
ListResp(net, top, code, data, subtitle, subtitles, tracks) ==
    [net |-> net, top |-> top, code |-> code, data |-> data,
     subtitle |-> subtitle, subtitles |-> subtitles, tracks |-> tracks]

ListResponses ==
    { ListResp("transport", "null", "missing", "missing", "missing", "missing", <<>>),
      ListResp("badjson", "null", "missing", "missing", "missing", "missing", <<>>),
      ListResp("ok", "null", "missing", "missing", "missing", "missing", <<>>),
      ListResp("ok", "empty", "missing", "missing", "missing", "missing", <<>>),
      ListResp("ok", "nonobj", "missing", "missing", "missing", "missing", <<>>),
      ListResp("ok", "obj", "nonzero", "missing", "missing", "missing", <<>>),
      ListResp("ok", "obj", "missing", "obj", "obj", "list", <<TrackKind.ai>>),
      ListResp("ok", "obj", "nonzero", "obj", "obj", "list", <<TrackKind.ai>>),
      ListResp("ok", "obj", "zero", "missing", "missing", "missing", <<>>),
      ListResp("ok", "obj", "zero", "null", "missing", "missing", <<>>),
      ListResp("ok", "obj", "zero", "wrong", "missing", "missing", <<>>),
      ListResp("ok", "obj", "zero", "obj", "missing", "missing", <<>>),
      ListResp("ok", "obj", "zero", "obj", "null", "missing", <<>>),
      ListResp("ok", "obj", "zero", "obj", "wrong", "missing", <<>>),
      ListResp("ok", "obj", "zero", "obj", "obj", "missing", <<>>),
      ListResp("ok", "obj", "zero", "obj", "obj", "null", <<>>),
      ListResp("ok", "obj", "zero", "obj", "obj", "wrong", <<>>) }
    \cup { ListResp("ok", "obj", "zero", "obj", "obj", "list", t) : t \in TrackLists }

\* `not data`: _request_with_headers returned None (anything in its try
\* block raised) or a falsy body
DataFalsy(resp) ==
    \/ resp.net # "ok"
    \/ resp.top \in {"null", "empty"}

\* s.get("subtitle_url") is truthy
HasSubtitleUrl(t) == t.urlKey = "present" /\ t.url # <<>>

\* available = [s for s in subtitles if s.get("subtitle_url")]
Available(tracks) == SelectSeq(tracks, HasSubtitleUrl)

\* One pass through the loop body of get_subtitle_list after the response
\* arrived: "continue", "return" (available is non-empty) or "raise"
\* (an AttributeError / TypeError leaves the function).
ListIteration(resp) ==
    IF DataFalsy(resp) THEN "continue"
    ELSE IF resp.top # "obj" THEN "raise"                \* data.get on a non-dict
    ELSE IF resp.code # "zero" THEN "continue"
    ELSE IF resp.data \in {"null", "wrong"} THEN "raise" \* .get("subtitle", {})
    ELSE IF resp.data = "missing" THEN "continue"        \* {} -> {} -> []
    ELSE IF resp.subtitle \in {"null", "wrong"} THEN "raise"
    ELSE IF resp.subtitle = "missing" THEN "continue"
    ELSE IF resp.subtitles \in {"null", "wrong"} THEN "raise"
    ELSE IF resp.subtitles = "missing" THEN "continue"
    ELSE IF \E i \in 1..Len(resp.tracks) : resp.tracks[i].kind # "obj" THEN "raise"
    ELSE IF Available(resp.tracks) # <<>> THEN "return"
    ELSE "continue"

\* clean_params = {k: v for k, v in params.items() if v is not None}
CleanParams(k, a, c, b) ==
    LET idKey == EndpointCandidates[k].idKey
        idVal == IF idKey = "aid" THEN a ELSE b
    IN  (IF idVal # None THEN {<<idKey, idVal>>} ELSE {})
        \cup (IF c # None THEN {<<"cid", c>>} ELSE {})

ParamKeys(ps) == { p[1] : p \in ps }

\* the loop's skip test: if "cid" not in clean_params: continue
CandidateSkipped(k, a, c, b) == "cid" \notin ParamKeys(CleanParams(k, a, c, b))

ListRequest(k, a, c, b) ==
    [kind |-> "list", url |-> EndpointCandidates[k].url,
     params |-> CleanParams(k, a, c, b),
     headers |-> "full", cookies |-> TRUE, cand |-> k]

----------------------------------------------------------------------------
(* BilibiliAPI.get_subtitle_content: URL rewriting, strategies, responses.  *)

\* a prologue that leaves the URL as it was given
NormalizeSubtitleUrl_Asis(u) == u

\* the "handle relative URL" prologue of get_subtitle_content
NormalizeSubtitleUrl(u) ==
    IF StartsWith(u, <<"/", "/">>) THEN <<"https:">> \o u
    ELSE IF StartsWith(u, <<"/">>) THEN <<"https:", "/", "/", CdnHost>> \o u
    ELSE u

\* request_strategies: the headers and the cookies of each attempt
RequestStrategies ==
    << [headers |-> "full", cookies |-> TRUE],
       [headers |-> "ua",   cookies |-> FALSE],
       [headers |-> "none", cookies |-> FALSE] >>

\* ticks to the second: a seconds value is a whole number of ticks of 0.0002 s
TicksPerSecond == 5000

\* A caption event of a downloaded payload (times in ticks).
Event(from, to, content) == [from |-> from, to |-> to, content |-> content]

\* A downloaded payload, the value of response.json():
\*   top:    "obj" (non-empty object), "null", "empty" ({} or []), "nonobj"
\*   lang:   value of key lang (<<>> when missing)
\*   body:   value of key body: "list", "missing", "null", "wrong"
\*   events: the elements of body when it is a list
Payload(top, lang, bodyKey, events) ==
    [top |-> top, lang |-> lang, body |-> bodyKey, events |-> events]

NoPayload == Payload("null", <<>>, "missing", <<>>)

Payloads ==
    { Payload("obj", Lan.zh, "list", <<Event(0, 15000, <<"hello">>)>>),
      Payload("obj", Lan.aiZh, "list",
              <<Event(10000, 25000, <<"a">>), Event(5000, 4000, <<"b">>)>>),
      Payload("obj", <<>>, "list", <<>>),
      Payload("obj", <<>>, "missing", <<>>),
      Payload("obj", <<>>, "null", <<>>),
      Payload("obj", <<>>, "wrong", <<>>),
      Payload("null", <<>>, "missing", <<>>),
      Payload("empty", <<>>, "missing", <<>>),
      Payload("nonobj", <<>>, "missing", <<>>) }

\* str(e) of the exceptions a download attempt raises
DownloadErrors ==
    { <<"403", " Client Error: Forbidden for url">>,
      <<"404", " Client Error: Not Found for url">>,
      <<"Read timed out">>,
      <<"Expecting value: line 1 column 1 (char 0)">> }

\* Response to a download request: net = "ok" with the parsed payload, or
\* net = "fail" with the message of the exception raised in the try block.
DownloadResp(net, err, payload) == [net |-> net, err |-> err, payload |-> payload]

DownloadResponses ==
    { DownloadResp("ok", <<>>, p) : p \in Payloads }
    \cup { DownloadResp("fail", e, NoPayload) : e \in DownloadErrors }

\* the message printed after the loop, which tests "403" in str(last_error)
DownloadFailureMessage(err) ==
    IF Contains(err, <<"403">>) THEN "download failed: 403 (auth_key expired or headers mismatch)"
    ELSE "download failed"

\* variant: an error mentioning 403 ends the call with an empty payload
DownloadFailureResult_403(err) ==
    IF Contains(err, <<"403">>) THEN [tag |-> "payload", payload |-> NoPayload]
    ELSE [tag |-> "None", payload |-> NoPayload]

\* the result once every strategy failed
DownloadFailureResult(err) == [tag |-> "None", payload |-> NoPayload]

DownloadRequest(k, u) ==
    [kind |-> "download", url |-> u, params |-> {},
     headers |-> RequestStrategies[k].headers,
     cookies |-> RequestStrategies[k].cookies, cand |-> k]

----------------------------------------------------------------------------
(* Input URLs and the URL tests of the adapters.  A word that the regular  *)
(* expressions can match into is a token of its own: "BV" and "av" are     *)
(* always followed by whole tokens of AlnumWords / DigitWords or by        *)
(* punctuation.                                                            *)

Https == <<"https:", "/", "/">>

DigitWords == {"170001", "12345"}
AlnumWords ==
    DigitWords \cup {"17x411w7KC", "dQw4w9WgXcQ", "BV", "av", "video", "watch", "shorts", "v"}

\* the URLs extract_subtitles is called with: Bilibili pages with a BV and
\* an av id, a bare BV id, a Bilibili page without id, a direct subtitle
\* link, the three YouTube forms, a youtu.be link whose id reads av12345
\* (both adapters match it), a YouTube URL without scheme, another site
InputUrls ==
    { Https \o <<"www.", "bilibili.com", "/", "video", "/", "BV", "17x411w7KC">>,
      Https \o <<"www.", "bilibili.com", "/", "video", "/", "av", "170001">>,
      <<"BV", "17x411w7KC">>,
      Https \o <<"www.", "bilibili.com", "/", "video", "/">>,
      SubtitleUrl.absolute,
      Https \o <<"www.", "youtube.com", "/", "watch", "?", "v", "=", "dQw4w9WgXcQ">>,
      Https \o <<"youtu.be", "/", "dQw4w9WgXcQ">>,
      Https \o <<"www.", "youtube.com", "/", "shorts", "/", "dQw4w9WgXcQ">>,
      Https \o <<"youtu.be", "/", "av", "12345">>,
      <<"youtube.com", "/", "watch", "?", "v", "=", "dQw4w9WgXcQ">>,
      Https \o <<"vimeo.com", "/", "12345">> }

\* no text (None where a token sequence is expected; a regex group and a
\* video id are never the empty text)
NoText == <<>>

Min(S) == CHOOSE x \in S : \A y \in S : x <= y

\* last position of the maximal run of tokens of S that starts at i
RECURSIVE RunEnd(_, _, _)
RunEnd(u, i, S) ==
    IF i <= Len(u) /\ u[i] \in S THEN RunEnd(u, i + 1, S) ELSE i - 1

\* BV[a-zA-Z0-9]+ (word "BV") or av\d+ (word "av") matches at position i
IdAt(u, i, word) ==
    /\ i + 1 <= Len(u)
    /\ u[i] = word
    /\ u[i + 1] \in (IF word = "BV" THEN AlnumWords ELSE DigitWords)

\* the text the (greedy) pattern matches there
IdGroup(u, i, word) ==
    SubSeq(u, i, RunEnd(u, i + 1, IF word = "BV" THEN AlnumWords ELSE DigitWords))

DirectLinkPath == <<CdnHost, "/", "bfs", "/", "ai_subtitle", "/">>

\* BilibiliSubtitleAdapter.matches
BilibiliMatches(u) ==
    \/ Contains(u, <<"bilibili.com", "/", "video", "/">>)
    \/ Contains(u, DirectLinkPath)
    \/ \E i \in 1..Len(u) : IdAt(u, i, "BV") \/ IdAt(u, i, "av")

\* YoutubeSubtitleAdapter.matches
YoutubeMatches(u) ==
    \/ Contains(u, <<"youtube.com", "/", "watch">>)
    \/ Contains(u, <<"youtu.be", "/">>)
    \/ Contains(u, <<"youtube.com", "/", "shorts", "/">>)

\* the adapters in registration order, as _ensure_adapters creates them
RegisteredAdapters == <<"bilibili", "youtube">>

AdapterMatches(name, u) ==
    IF name = "bilibili" THEN BilibiliMatches(u) ELSE YoutubeMatches(u)

\* a choice of the last registered adapter that matches
PickAdapter_Last(u) ==
    LET hits == { i \in 1..Len(RegisteredAdapters) : AdapterMatches(RegisteredAdapters[i], u) }
    IN  IF hits = {} THEN "none"
        ELSE RegisteredAdapters[CHOOSE x \in hits : \A y \in hits : y <= x]

\* _pick_adapter: the first registered adapter that matches, or "none"
PickAdapter(u) ==
    LET hits == { i \in 1..Len(RegisteredAdapters) : AdapterMatches(RegisteredAdapters[i], u) }
    IN  IF hits = {} THEN "none" ELSE RegisteredAdapters[Min(hits)]

\* BilibiliSubtitleAdapter._extract_video_id: the four patterns in order,
\* re.search taking the leftmost match of each
BilibiliExtractVideoId(u) ==
    LET prefix == Https \o <<"www.", "bilibili.com", "/", "video", "/">>
        n  == Len(prefix)
        p1 == { i \in 1..Len(u) : OccursAt(u, prefix, i) /\ IdAt(u, i + n, "BV") }
        p2 == { i \in 1..Len(u) : OccursAt(u, prefix, i) /\ IdAt(u, i + n, "av") }
        p3 == { i \in 1..Len(u) : IdAt(u, i, "BV") }
        p4 == { i \in 1..Len(u) : IdAt(u, i, "av") }
    IN  IF p1 # {} THEN IdGroup(u, Min(p1) + n, "BV")
        ELSE IF p2 # {} THEN IdGroup(u, Min(p2) + n, "av")
        ELSE IF p3 # {} THEN IdGroup(u, Min(p3), "BV")
        ELSE IF p4 # {} THEN IdGroup(u, Min(p4), "av")
        ELSE NoText

----------------------------------------------------------------------------
(* BilibiliAPI.get_video_info and the metadata the adapter reads.          *)

\* Response to a metadata request.
\*   net, top, code: as for the caption-track list
\*   data:    value of key data: "obj", "missing", "null", "empty", "wrong"
\*   owner:   value of data.owner: "obj", "missing", "null"
\*   pages:   value of data.pages: "list", "missing", "empty", "wrong"
\*   pageCid: data.pages[0].cid, topCid: data.cid, aid, bvid: data.aid,
\*            data.bvid (None when the key is missing)
MetaResp(net, top, code, data, owner, pages, pageCid, topCid, a, b) ==
    [net |-> net, top |-> top, code |-> code, data |-> data, owner |-> owner,
     pages |-> pages, pageCid |-> pageCid, topCid |-> topCid, aid |-> a, bvid |-> b]

MetaResponses ==
    LET TheCid  == <<"279786">>
        TheAid  == <<"170001">>
        TheBvid == <<"BV", "17x411w7KC">>
    IN
    { MetaResp("transport", "null", "missing", "missing", "missing", "missing", None, None, None, None),
      MetaResp("badjson", "null", "missing", "missing", "missing", "missing", None, None, None, None),
      MetaResp("ok", "null", "missing", "missing", "missing", "missing", None, None, None, None),
      MetaResp("ok", "nonobj", "missing", "missing", "missing", "missing", None, None, None, None),
      MetaResp("ok", "obj", "nonzero", "missing", "missing", "missing", None, None, None, None),
      MetaResp("ok", "obj", "nonzero", "obj", "obj", "list", TheCid, None, TheAid, TheBvid),
      MetaResp("ok", "obj", "zero", "missing", "missing", "missing", None, None, None, None),
      MetaResp("ok", "obj", "zero", "null", "missing", "missing", None, None, None, None),
      MetaResp("ok", "obj", "zero", "wrong", "missing", "missing", None, None, None, None),
      MetaResp("ok", "obj", "zero", "obj", "obj", "list", TheCid, None, TheAid, TheBvid),
      MetaResp("ok", "obj", "zero", "obj", "missing", "missing", None, TheCid, TheAid, None),
      MetaResp("ok", "obj", "zero", "obj", "obj", "empty", None, TheCid, None, None),
      MetaResp("ok", "obj", "zero", "obj", "obj", "list", None, TheCid, TheAid, TheBvid),
      MetaResp("ok", "obj", "zero", "obj", "obj", "missing", None, None, TheAid, TheBvid),
      MetaResp("ok", "obj", "zero", "obj", "null", "list", TheCid, None, TheAid, TheBvid),
      MetaResp("ok", "obj", "zero", "obj", "null", "missing", None, None, TheAid, TheBvid),
      MetaResp("ok", "obj", "zero", "obj", "obj", "wrong", None, TheCid, TheAid, TheBvid) }

\* the part of a metadata response get_video_info reads
MetaRead(resp) == [net |-> resp.net, top |-> resp.top, code |-> resp.code, data |-> resp.data]

\* get_video_info: "raise" (data.get on a non-dict), "None", or "data" (the
\* value of key data is returned, whatever it is)
GetVideoInfo(resp) ==
    IF resp.net # "ok" \/ resp.top \in {"null", "empty"} THEN "None"
    ELSE IF resp.top # "obj" THEN "raise"
    ELSE IF resp.code # "zero" THEN "None"
    ELSE "data"

\* `not video_data`
VideoDataFalsy(resp) == resp.data \in {"missing", "null", "empty"}

\* VideoInfo(video_data) raises: .get on a non-dict, or owner is not a dict;
\* pages = video_info.pages or [{"cid": video_data.get("cid")}]; pages[0]
\* raises when pages is not a list of objects
VideoInfoRaises(resp) ==
    \/ resp.data = "wrong"
    \/ resp.owner = "null"
    \/ resp.pages = "wrong"

\* cid = pages[0].get("cid")
FirstPageCid(resp) == IF resp.pages = "list" THEN resp.pageCid ELSE resp.topCid

MetaRequest(v) ==
    [kind |-> "meta", url |-> BaseUrl \o <<"/", "x", "/", "web-interface", "/", "view">>,
     params |-> IF StartsWith(v, <<"BV">>) THEN {<<"bvid", v>>} ELSE {<<"aid", Tail(v)>>},
     headers |-> "full", cookies |-> TRUE, cand |-> 0]

\* lan.lower()
Lower(t) ==
    LET LowerChar(c) ==
            CASE c = "A" -> "a" [] c = "I" -> "i" [] c = "C" -> "c" [] c = "N" -> "n"
              [] c = "Z" -> "z" [] c = "H" -> "h" [] c = "E" -> "e"
              [] c = "S" -> "s" [] c = "R" -> "r" [] c = "T" -> "t" [] c = "V" -> "v"
              [] c = "L" -> "l" [] c = "X" -> "x"
              [] OTHER -> c
    IN  [i \in 1..Len(t) |-> LowerChar(t[i])]

\* the search loop of get_ai_subtitle_data stops at the first track with
\* "ai" in sub.get("lan", "").lower(); a track it reaches whose lan is null
\* raises (None has no lower()); without AI track the first track is taken
AiSearch(tracks) ==
    LET stops == { i \in 1..Len(tracks) :
                     \/ tracks[i].lanKey = "null"
                     \/ Contains(Lower(tracks[i].lan), <<"a", "i">>) }
    IN  IF stops = {} THEN [outcome |-> "first", track |-> tracks[1]]
        ELSE IF tracks[Min(stops)].lanKey = "null"
             THEN [outcome |-> "raise", track |-> tracks[Min(stops)]]
             ELSE [outcome |-> "ai", track |-> tracks[Min(stops)]]

\* `not subtitle_data`
PayloadFalsy(r) == r.tag = "None" \/ r.payload.top \in {"null", "empty"}

----------------------------------------------------------------------------
(* YoutubeSubtitleAdapter._extract_json_object_by_marker.                  *)

\* a search that reports the last occurrence instead of the first
Find_Last(s, p, from) ==
    LET hits == { i \in from..(Len(s) + 1) : OccursAt(s, p, i) }
    IN  IF hits = {} THEN 0 ELSE CHOOSE x \in hits : \A y \in hits : y <= x

\* str.find(p, from): the first position >= from where p occurs, 0 if none
Find(s, p, from) ==
    LET hits == { i \in from..(Len(s) + 1) : OccursAt(s, p, i) }
    IN  IF hits = {} THEN 0 ELSE Min(hits)

\* a string state that does not know the backslash
StringStep_NoEscape(ch, esc) ==
    IF ch = "\"" THEN [in_string |-> FALSE, escape |-> FALSE]
    ELSE [in_string |-> TRUE, escape |-> FALSE]

\* the string state after the character ch was read inside a string
StringStep(ch, esc) ==
    IF esc THEN [in_string |-> TRUE, escape |-> FALSE]
    ELSE IF ch = "\\" THEN [in_string |-> TRUE, escape |-> TRUE]
    ELSE IF ch = "\"" THEN [in_string |-> FALSE, escape |-> FALSE]
    ELSE [in_string |-> TRUE, escape |-> FALSE]

\* the brace depth after the character ch was read outside a string
DepthStep(ch, d) ==
    IF ch = "{" THEN d + 1
    ELSE IF ch = "}" THEN d - 1
    ELSE d

----------------------------------------------------------------------------
(* YoutubeSubtitleAdapter: URL parsing, the watch page, the player         *)
(* response, track selection and the caption download.                     *)

\* s.split(sep)
RECURSIVE SplitOn(_, _)
SplitOn(s, sep) ==
    LET hits == { i \in 1..Len(s) : s[i] = sep }
    IN  IF hits = {} THEN <<s>>
        ELSE <<SubSeq(s, 1, Min(hits) - 1)>> \o SplitOn(SubSeq(s, Min(hits) + 1, Len(s)), sep)

\* s.strip(chars): the tokens of S removed from both ends
RECURSIVE Trim(_, _)
Trim(s, S) ==
    IF s # <<>> /\ s[1] \in S THEN Trim(Tail(s), S)
    ELSE IF s # <<>> /\ s[Len(s)] \in S THEN Trim(SubSeq(s, 1, Len(s) - 1), S)
    ELSE s

\* first position of a token of S in s, Len(s) + 1 if there is none
FirstOf(s, S) ==
    LET hits == { i \in 1..Len(s) : s[i] \in S }
    IN  IF hits = {} THEN Len(s) + 1 ELSE Min(hits)

\* urlparse: the scheme and the network location (which only follows
\* "scheme://"), the path, the query and the fragment
UrlParse(u) ==
    LET hasNetloc == StartsWith(u, Https)
        rest      == IF hasNetloc THEN SubSeq(u, Len(Https) + 1, Len(u)) ELSE u
        netloc    == IF hasNetloc
                     THEN SubSeq(rest, 1, FirstOf(rest, {"/", "?", "#"}) - 1)
                     ELSE <<>>
        after     == SubSeq(rest, Len(netloc) + 1, Len(rest))
        noFrag    == SubSeq(after, 1, FirstOf(after, {"#"}) - 1)
    IN  [scheme   |-> IF hasNetloc THEN Https ELSE <<>>,
         netloc   |-> netloc,
         path     |-> SubSeq(noFrag, 1, FirstOf(noFrag, {"?"}) - 1),
         query    |-> SubSeq(noFrag, FirstOf(noFrag, {"?"}) + 1, Len(noFrag)),
         fragment |-> SubSeq(after, FirstOf(after, {"#"}) + 1, Len(after))]

\* the name=value pairs of parse_qs, in order; a field without "=" or with
\* a blank value is dropped (keep_blank_values is off)
QueryPairs(q) ==
    LET fields == SplitOn(q, "&")
        Unquote(s) == [i \in 1..Len(s) |->
                         CASE s[i] = "%2C" -> "," [] s[i] = "+" -> " " [] OTHER -> s[i]]
        Name(f)  == Unquote(SubSeq(f, 1, FirstOf(f, {"="}) - 1))
        Value(f) == Unquote(SubSeq(f, FirstOf(f, {"="}) + 1, Len(f)))
        kept == SelectSeq(fields, LAMBDA f : FirstOf(f, {"="}) <= Len(f) /\ Value(f) # <<>>)
    IN  [i \in 1..Len(kept) |-> <<Name(kept[i]), Value(kept[i])>>]

\* YoutubeSubtitleAdapter._extract_video_id
YoutubeExtractVideoId(u) ==
    LET parsed == UrlParse(u)
        q      == QueryPairs(parsed.query)
        \* (q.get("v") or [None])[0]
        vs     == { i \in 1..Len(q) : q[i][1] = <<"v">> }
    IN  IF Contains(parsed.netloc, <<"youtu.be">>)
        THEN SplitOn(Trim(parsed.path, {"/"}), "/")[1]
        ELSE IF Contains(parsed.netloc, <<"youtube.com">>)
        THEN IF parsed.path = <<"/", "watch">>
             THEN IF vs = {} THEN NoText ELSE q[Min(vs)][2]
             ELSE IF StartsWith(parsed.path, <<"/", "shorts", "/">>)
             THEN IF Len(SplitOn(parsed.path, "/")) > 2
                  THEN SplitOn(parsed.path, "/")[3]
                  ELSE NoText
             ELSE NoText
        ELSE NoText

PageRequest(v) ==
    [kind |-> "page",
     url |-> Https \o <<"www.", "youtube.com", "/", "watch", "?", "v", "=">> \o v,
     params |-> {},
     headers |-> "full", cookies |-> FALSE, cand |-> 0]

\* markers of _extract_player_response, in order
Markers == << <<"ytInitialPlayerResponse = ">>, <<"\"ytInitialPlayerResponse\":">> >>

\* A caption track of the player response.
\*   kind:    "obj", "empty" ({}), "notdict"
\*   asr:     kind == "asr"
\*   langKey: languageCode is "present", "missing" or "null"; lang its text
\*   urlKey:  baseUrl is "str", "missing", "null", "wrong" (not a string)
\*   name:    value of key name: "obj", "missing", "null"
YtTrack(kind, asr, langKey, lang, urlKey, baseUrl, name) ==
    [kind |-> kind, asr |-> asr, langKey |-> langKey, lang |-> lang,
     urlKey |-> urlKey, baseUrl |-> baseUrl, name |-> name]

\* the caption tracks the player responses are made of
Trk ==
    LET base    == Https \o <<"www.", "youtube.com", "/", "api", "/", "timedtext">>
        plain   == base \o <<"?", "v", "=", "dQw4w9WgXcQ", "&", "lang", "=", "en">>
        escaped == base \o <<"?", "v", "=", "dQw4w9WgXcQ", "\\u0026", "lang", "=", "en",
                             "&amp;", "fmt", "=", "srv3", "&", "sig", "=">>
    IN  [zh       |-> YtTrack("obj", FALSE, "present", <<"z", "h", "-", "H", "a", "n", "s">>, "str", plain, "obj"),
         en       |-> YtTrack("obj", FALSE, "present", <<"e", "n">>, "str", plain, "obj"),
         enAsr    |-> YtTrack("obj", TRUE, "present", <<"E", "N">>, "str", escaped, "obj"),
         fr       |-> YtTrack("obj", FALSE, "present", <<"f", "r">>, "str", plain, "missing"),
         noUrl    |-> YtTrack("obj", FALSE, "present", <<"e", "n">>, "missing", <<>>, "obj"),
         urlWrong |-> YtTrack("obj", FALSE, "present", <<"e", "n">>, "wrong", <<>>, "obj"),
         nameNull |-> YtTrack("obj", FALSE, "present", <<"e", "n">>, "str", plain, "null"),
         langNull |-> YtTrack("obj", FALSE, "null", <<>>, "str", plain, "obj"),
         none     |-> YtTrack("empty", FALSE, "missing", <<>>, "missing", <<>>, "missing"),
         notDict  |-> YtTrack("notdict", FALSE, "missing", <<>>, "missing", <<>>, "missing")]

\* A player response, the value of json.loads.
\*   doc:       the text of the object between its braces
\*   top:       "obj" or "empty" ({})
\*   details:   videoDetails: "obj", "missing", "null"
\*   length:    videoDetails.lengthSeconds: "num" or "bad" (int() rejects it)
\*   captions:  captions: "obj", "missing", "null"
\*   renderer:  captions.playerCaptionsTracklistRenderer: "obj", "missing", "null"
\*   tracksKey: captionTracks: "list", "missing", "null", "wrong"
Player(doc, top, details, length, captions, renderer, tracksKey, tracks) ==
    [doc |-> doc, top |-> top, details |-> details, length |-> length,
     captions |-> captions, renderer |-> renderer, tracksKey |-> tracksKey,
     tracks |-> tracks]

NoPlayer == Player(<<>>, "none", "missing", "num", "missing", "missing", "missing", <<>>)

GoodPlayer ==
    Player(<<"good">>, "obj", "obj", "num", "obj", "obj", "list",
           <<Trk.enAsr, Trk.fr, Trk.en, Trk.zh>>)

Players ==
    { Player(<<"p", ts[1].kind, ts[1].urlKey, ts[1].name, ts[1].langKey, ts[Len(ts)].kind>>,
             "obj", "obj", "num", "obj", "obj", "list", ts) :
        ts \in { <<Trk.enAsr>>, <<Trk.fr, Trk.enAsr>>, <<Trk.langNull, Trk.en>>,
                 <<Trk.noUrl>>, <<Trk.urlWrong>>, <<Trk.nameNull>>,
                 <<Trk.none, Trk.enAsr>>, <<Trk.en, Trk.notDict>> } }
    \cup
    { GoodPlayer,
      Player(<<>>, "empty", "missing", "num", "missing", "missing", "missing", <<>>),
      Player(<<"details-null">>, "obj", "null", "num", "obj", "obj", "list", <<Trk.en>>),
      Player(<<"details-missing">>, "obj", "missing", "num", "obj", "obj", "list", <<Trk.en>>),
      Player(<<"length-bad">>, "obj", "obj", "bad", "obj", "obj", "list", <<Trk.en>>),
      Player(<<"captions-missing">>, "obj", "obj", "num", "missing", "missing", "missing", <<>>),
      Player(<<"captions-null">>, "obj", "obj", "num", "null", "missing", "missing", <<>>),
      Player(<<"renderer-missing">>, "obj", "obj", "num", "obj", "missing", "missing", <<>>),
      Player(<<"renderer-null">>, "obj", "obj", "num", "obj", "null", "missing", <<>>),
      Player(<<"tracks-missing">>, "obj", "obj", "num", "obj", "obj", "missing", <<>>),
      Player(<<"tracks-null">>, "obj", "obj", "num", "obj", "obj", "null", <<>>),
      Player(<<"tracks-empty">>, "obj", "obj", "num", "obj", "obj", "list", <<>>),
      Player(<<"tracks-wrong">>, "obj", "obj", "num", "obj", "obj", "wrong", <<>>) }

\* the JSON text of a player response; the tricky form begins with a key
\* that holds a closing brace and an escaped quote
DocText(p, tricky) ==
    <<"{">> \o (IF tricky THEN <<"\"", "}", "\\", "\"", "\"">> ELSE <<>>) \o p.doc \o <<"}">>

\* json.loads(payload): the player response, or NoPlayer when it raises
JsonLoads(slice) ==
    IF \E p \in Players : slice \in {DocText(p, FALSE), DocText(p, TRUE)}
    THEN CHOOSE p \in Players : slice \in {DocText(p, FALSE), DocText(p, TRUE)}
    ELSE NoPlayer

\* the watch pages
Pages ==
    { <<"<html>">> \o Markers[1] \o DocText(p, FALSE) \o <<";", "</html>">> : p \in Players }
    \cup
    { Markers[1] \o DocText(GoodPlayer, TRUE) \o <<";">>,
      <<"<html>">> \o Markers[2] \o DocText(GoodPlayer, FALSE),
      Markers[1] \o <<"{", "junk">> \o Markers[2] \o DocText(GoodPlayer, FALSE),
      Markers[1] \o <<"{", "junk", "}">> \o Markers[2] \o DocText(GoodPlayer, FALSE),
      Markers[1] \o <<"{", "junk", "}">>,
      Markers[1] \o <<"null">>,
      <<"<html>", "</html>">>,
      <<>> }

\* Response to the watch-page request: the page text when net is "ok"
PageResponses ==
    { [net |-> "ok", page |-> pg] : pg \in Pages } \cup { [net |-> "fail", page |-> <<>>] }

\* the tracklist lookups of fetch_subtitle_bundle: "raise" (.get on None),
\* "None" (no caption tracks), "wrong" (caption tracks that are no list of
\* objects: sorting them or reading them raises) or "tracks"
CaptionTracks(p) ==
    IF p.captions = "null" \/ p.renderer = "null" THEN "raise"
    ELSE IF p.captions = "missing" \/ p.renderer = "missing" THEN "None"
    ELSE IF p.tracksKey \in {"missing", "null"} THEN "None"
    ELSE IF p.tracksKey = "wrong" THEN "wrong"
    ELSE IF p.tracks = <<>> THEN "None"
    ELSE "tracks"

\* lang_score of str(track.get("languageCode", "")).lower()
LangScore(t) ==
    LET lang == IF t.langKey = "null" THEN <<"n", "o", "n", "e">> ELSE Lower(t.lang)
    IN  IF StartsWith(lang, <<"z", "h">>) THEN 0
        ELSE IF StartsWith(lang, <<"e", "n">>) THEN 1
        ELSE 99

\* a choice of the last track with the least key
PickCaptionTrack_Last(tracks) ==
    LET Key(t) == <<IF t.asr THEN 1 ELSE 0, LangScore(t)>>
        Less(a, b) == a[1] < b[1] \/ (a[1] = b[1] /\ a[2] < b[2])
        least == { i \in 1..Len(tracks) :
                     \A j \in 1..Len(tracks) : ~Less(Key(tracks[j]), Key(tracks[i])) }
    IN  tracks[CHOOSE i \in least : \A j \in least : j <= i]

\* sorted(tracks, key)[0] with key (kind == "asr", lang_score): the first
\* track with the least key (the sort is stable)
PickCaptionTrack(tracks) ==
    LET Key(t) == <<IF t.asr THEN 1 ELSE 0, LangScore(t)>>
        Less(a, b) == a[1] < b[1] \/ (a[1] = b[1] /\ a[2] < b[2])
    IN  tracks[Min({ i \in 1..Len(tracks) :
                       \A j \in 1..Len(tracks) : ~Less(Key(tracks[j]), Key(tracks[i])) })]

\* the pairs urlencode writes: the names in order of first appearance, the
\* values of a name together, and fmt holding json3 only
RECURSIVE GroupPairs(_, _)
GroupPairs(ps, seen) ==
    IF ps = <<>> THEN <<>>
    ELSE IF ps[1][1] \in seen THEN GroupPairs(Tail(ps), seen)
    ELSE (IF ps[1][1] = <<"fmt">> THEN << <<<<"fmt">>, <<"json3">>>> >>
          ELSE SelectSeq(ps, LAMBDA q : q[1] = ps[1][1]))
         \o GroupPairs(Tail(ps), seen \cup {ps[1][1]})

\* urlencode: name=value joined by "&", each token through quote_plus
RECURSIVE JoinPairs(_)
JoinPairs(ps) ==
    LET Quoted(s) == [i \in 1..Len(s) |->
                        CASE s[i] = "," -> "%2C" [] s[i] = " " -> "+" [] OTHER -> s[i]]
    IN  IF ps = <<>> THEN <<>>
        ELSE Quoted(ps[1][1]) \o <<"=">> \o Quoted(ps[1][2])
             \o (IF Len(ps) > 1 THEN <<"&">> ELSE <<>>) \o JoinPairs(Tail(ps))

\* _ensure_json3_url, after base_url.replace("\\u0026", "&") and html.unescape
EnsureJson3Url(base) ==
    LET unescaped == [i \in 1..Len(base) |->
                        IF base[i] \in {"\\u0026", "&amp;"} THEN "&" ELSE base[i]]
        parsed    == UrlParse(unescaped)
        pairs     == QueryPairs(parsed.query)
        hasFmt    == \E i \in 1..Len(pairs) : pairs[i][1] = <<"fmt">>
        query     == GroupPairs(IF hasFmt THEN pairs
                                ELSE Append(pairs, <<<<"fmt">>, <<"json3">>>>), {})
    IN  parsed.scheme \o parsed.netloc \o parsed.path \o <<"?">> \o JoinPairs(query)
        \o (IF parsed.fragment = <<>> THEN <<>> ELSE <<"#">> \o parsed.fragment)

CaptionRequest(t) ==
    [kind |-> "caption", url |-> EnsureJson3Url(t.baseUrl), params |-> {},
     headers |-> "full", cookies |-> FALSE, cand |-> 0]

\* A json3 caption event.
\*   kind:  "obj" or "notdict"
\*   segs:  "list", "missing", "null", or "bad" (a segment that is no object,
\*          or whose utf8 is no string)
\*   texts: the utf8 of each segment
\*   start, dur: tStartMs and dDurationMs in ms (0 when missing or null);
\*   startBad: tStartMs is a string int() rejects
YtEvent(kind, segs, texts, start, dur, startBad) ==
    [kind |-> kind, segs |-> segs, texts |-> texts, start |-> start, dur |-> dur,
     startBad |-> startBad]

WhiteSpace == {" ", "\n", "\t"}

RECURSIVE Concat(_)
Concat(ss) == IF ss = <<>> THEN <<>> ELSE ss[1] \o Concat(Tail(ss))

\* re.sub(r'<[^>]+>', '', text): leftmost matches, one after the other
RECURSIVE RemoveTags(_)
RemoveTags(s) ==
    LET opens == { i \in 1..Len(s) :
                     /\ s[i] = "<"
                     /\ i + 1 <= Len(s) /\ s[i + 1] # ">"
                     /\ \E j \in (i + 2)..Len(s) : s[j] = ">" }
    IN  IF opens = {} THEN s
        ELSE LET i == Min(opens)
                 j == Min({ k \in (i + 2)..Len(s) : s[k] = ">" })
             IN  SubSeq(s, 1, i - 1) \o RemoveTags(SubSeq(s, j + 1, Len(s)))

\* re.sub(r'\s+', ' ', text)
RECURSIVE CollapseSpace(_)
CollapseSpace(s) ==
    IF s = <<>> THEN <<>>
    ELSE IF s[1] \in WhiteSpace
    THEN <<" ">> \o CollapseSpace(SubSeq(s, RunEnd(s, 1, WhiteSpace) + 1, Len(s)))
    ELSE <<s[1]>> \o CollapseSpace(Tail(s))

\* utils.clean_text
CleanText(s) == IF s = <<>> THEN <<>> ELSE Trim(CollapseSpace(RemoveTags(s)), WhiteSpace)

\* "".join(...).replace("\n", " ").strip(), then clean_text
EventText(e) ==
    LET joined == Concat(e.texts)
    IN  CleanText(Trim([i \in 1..Len(joined) |-> IF joined[i] = "\n" THEN " " ELSE joined[i]],
                       WhiteSpace))

\* `if not segments: continue` and `if not text: continue`
EventSkipped(e) ==
    \/ e.segs \in {"missing", "null"}
    \/ e.texts = <<>>
    \/ EventText(e) = <<>>

\* body entries that end at start + duration whatever the duration is
RECURSIVE CaptionBody_NoFallback(_)
CaptionBody_NoFallback(es) ==
    LET MsToTicks(ms) == (ms * TicksPerSecond) \div 1000
        Body(e) == Event(MsToTicks(e.start), MsToTicks(e.start + e.dur), EventText(e))
    IN  IF es = <<>> THEN <<>>
        ELSE (IF EventSkipped(es[1]) THEN <<>> ELSE <<Body(es[1])>>)
             \o CaptionBody_NoFallback(Tail(es))

\* the body entries of the events that are not skipped: from, to (1.5 s
\* after from when there is no duration) and the text
RECURSIVE CaptionBody(_)
CaptionBody(es) ==
    LET MsToTicks(ms) == (ms * TicksPerSecond) \div 1000
        Body(e) == Event(MsToTicks(e.start),
                         MsToTicks(e.start + (IF e.dur > 0 THEN e.dur ELSE 1500)),
                         EventText(e))
    IN  IF es = <<>> THEN <<>>
        ELSE (IF EventSkipped(es[1]) THEN <<>> ELSE <<Body(es[1])>>) \o CaptionBody(Tail(es))

\* Response to the caption request.
\*   top:       "obj", "null", "nonobj"
\*   eventsKey: events is a "list", "missing", "null" or "wrong"
CaptionResp(net, top, eventsKey, events) ==
    [net |-> net, top |-> top, eventsKey |-> eventsKey, events |-> events]

CaptionResponses ==
    LET EvHello == YtEvent("obj", "list", <<<<"Hello", " ">>, <<"<", "b", ">", "world", "\n">>>>,
                           1200, 2300, FALSE)
        EvNoDur == YtEvent("obj", "list", <<<<" ", "next", "\n", "\n", "line">>>>, 4000, 0, FALSE)
        EvBlank == YtEvent("obj", "list", <<<<"\n">>, <<" ">>>>, 5000, 100, TRUE)
        EvNoSeg == YtEvent("obj", "missing", <<>>, 6000, 100, FALSE)
        EvBadSeg == YtEvent("obj", "bad", <<>>, 0, 0, FALSE)
        EvBadStart == YtEvent("obj", "list", <<<<"x">>>>, 0, 0, TRUE)
        EvNotDict == YtEvent("notdict", "missing", <<>>, 0, 0, FALSE)
    IN
    { CaptionResp("fail", "null", "missing", <<>>),
      CaptionResp("ok", "null", "missing", <<>>),
      CaptionResp("ok", "nonobj", "missing", <<>>),
      CaptionResp("ok", "obj", "missing", <<>>),
      CaptionResp("ok", "obj", "null", <<>>),
      CaptionResp("ok", "obj", "wrong", <<>>),
      CaptionResp("ok", "obj", "list", <<>>),
      CaptionResp("ok", "obj", "list", <<EvHello, EvNoDur>>),
      CaptionResp("ok", "obj", "list", <<EvBlank, EvNoSeg, EvHello>>),
      CaptionResp("ok", "obj", "list", <<EvBlank, EvNoSeg>>),
      CaptionResp("ok", "obj", "list", <<EvHello, EvBadSeg>>),
      CaptionResp("ok", "obj", "list", <<EvBadStart>>),
      CaptionResp("ok", "obj", "list", <<EvNotDict>>) }

\* _download_caption_track after the request: "None", "raise" or "body"
CaptionOutcome(resp) ==
    IF resp.net # "ok" THEN "None"
    ELSE IF resp.top # "obj" THEN "raise"
    ELSE IF resp.eventsKey \in {"null", "wrong"} THEN "raise"
    ELSE IF \E i \in 1..Len(resp.events) :
                \/ resp.events[i].kind = "notdict"
                \/ resp.events[i].segs = "bad"
                \/ ~EventSkipped(resp.events[i]) /\ resp.events[i].startBad
         THEN "raise"
    ELSE IF CaptionBody(resp.events) = <<>> THEN "None"
    ELSE "body"

\* what _download_caption_track returns after the request
CaptionResult(resp) ==
    [tag  |-> CASE CaptionOutcome(resp) = "raise" -> "raised"
                [] CaptionOutcome(resp) = "body" -> "body"
                [] OTHER -> "None",
     body |-> IF CaptionOutcome(resp) = "body" THEN CaptionBody(resp.events) ELSE <<>>]

\* building the bundle raises: clean_text(None.get(...)), int("..."),
\* or name is None
BundleRaises(p, t) == p.details = "null" \/ p.length = "bad" \/ t.name = "null"

----------------------------------------------------------------------------
(* SubtitleExtractor timestamp formatters.  A seconds value is a whole     *)
(* number of ticks, TicksPerSecond ticks to the second (0.0002 s each).    *)

DigitChars == <<"0", "1", "2", "3", "4", "5", "6", "7", "8", "9">>

\* str(n) of a natural number
RECURSIVE Str(_)
Str(n) ==
    IF n < 10 THEN <<DigitChars[n + 1]>>
    ELSE Str(n \div 10) \o <<DigitChars[(n % 10) + 1]>>

\* a format that does not pad
Pad_NoZeros(n, w) == Str(n)

\* f"{n:0wd}": at least w digits, zero-padded on the left
Pad(n, w) ==
    LET zeros == IF Len(Str(n)) < w THEN w - Len(Str(n)) ELSE 0
    IN  [i \in 1..zeros |-> "0"] \o Str(n)

\* max(0.0, float(seconds))
Safe(t) == IF t < 0 THEN 0 ELSE t

\* round(n / d) as Python rounds: to the nearest integer, a tie to the even one
Round(n, d) ==
    LET q == n \div d
        r == n % d
    IN  IF 2 * r < d THEN q
        ELSE IF 2 * r > d THEN q + 1
        ELSE IF q % 2 = 0 THEN q ELSE q + 1

\* _format_timestamp: HH:MM:SS of int(seconds), which truncates towards zero
FormatTimestamp(t) ==
    LET total_seconds == Safe(t) \div TicksPerSecond
        hours   == total_seconds \div 3600
        minutes == (total_seconds % 3600) \div 60
        secs    == total_seconds % 60
    IN  Pad(hours, 2) \o <<":">> \o Pad(minutes, 2) \o <<":">> \o Pad(secs, 2)

\* _format_timestamp_srt: HH:MM:SS,mmm, a millisecond part of 1000 being
\* carried into the whole seconds
FormatTimestampSrt(t) ==
    LET whole0  == Safe(t) \div TicksPerSecond
        ms0     == Round((Safe(t) - whole0 * TicksPerSecond) * 1000, TicksPerSecond)
        whole   == IF ms0 = 1000 THEN whole0 + 1 ELSE whole0
        ms      == IF ms0 = 1000 THEN 0 ELSE ms0
        hours   == whole \div 3600
        minutes == (whole % 3600) \div 60
        secs    == whole % 60
    IN  Pad(hours, 2) \o <<":">> \o Pad(minutes, 2) \o <<":">> \o Pad(secs, 2)
        \o <<",">> \o Pad(ms, 3)

\* _format_timestamp_vtt: HH:MM:SS.mmm, the SRT stamp with replace(",", ".")
FormatTimestampVtt(t) ==
    LET srt == FormatTimestampSrt(t)
    IN  [i \in 1..Len(srt) |-> IF srt[i] = "," THEN "." ELSE srt[i]]

\* minutes, seconds and centiseconds of a carry that stops at the second
LrcFields_NoMinuteCarry(t) ==
    LET minutes   == Safe(t) \div (60 * TicksPerSecond)
        sec_float == Safe(t) % (60 * TicksPerSecond)
        secs      == sec_float \div TicksPerSecond
        centis    == Round((sec_float - secs * TicksPerSecond) * 100, TicksPerSecond)
    IN  IF centis = 100 THEN <<minutes, secs + 1, 0>> ELSE <<minutes, secs, centis>>

\* minutes, seconds and centiseconds of _format_timestamp_lrc after both carries
LrcFields(t) ==
    LET minutes   == Safe(t) \div (60 * TicksPerSecond)
        sec_float == Safe(t) % (60 * TicksPerSecond)
        secs      == sec_float \div TicksPerSecond
        centis    == Round((sec_float - secs * TicksPerSecond) * 100, TicksPerSecond)
        secs2     == IF centis = 100 THEN secs + 1 ELSE secs
        centis2   == IF centis = 100 THEN 0 ELSE centis
    IN  IF secs2 = 60 THEN <<minutes + 1, 0, centis2>> ELSE <<minutes, secs2, centis2>>

\* _format_timestamp_lrc: MM:SS.xx
FormatTimestampLrc(t) ==
    Pad(LrcFields(t)[1], 2) \o <<":">> \o Pad(LrcFields(t)[2], 2) \o <<".">>
    \o Pad(LrcFields(t)[3], 2)

----------------------------------------------------------------------------
(* SubtitleExtractor._format_subtitle_body and the reading-document pass   *)
(* of VideoSummarizer (_extract_text_content, _strip_timestamps).  A text  *)
(* is a sequence of characters; a run of letters may be one token.         *)

\* "\n".join(lines)
RECURSIVE JoinLines(_)
JoinLines(ls) ==
    IF ls = <<>> THEN <<>>
    ELSE IF Len(ls) = 1 THEN ls[1]
    ELSE ls[1] \o <<"\n">> \o JoinLines(Tail(ls))

\* a fallback to the SRT rendering
FallbackFormat_Srt == <<"s", "r", "t">>

\* the format of the nested call that renders an unknown format
FallbackFormat == <<"t", "x", "t">>

\* a rendering that leaves out the last event of the body
FormatSubtitleBody_DropLast(b, f) ==
    [tag |-> "text", calls |-> 1,
     text |-> JoinLines([i \in 1..(Len(b) - 1) |->
                  <<"[">> \o FormatTimestampLrc(b[i].from) \o <<"]", " ">> \o b[i].content])]

\* _format_subtitle_body(body, subtitle_format): None for a falsy body, else
\* the text; calls counts the activations of the function
RECURSIVE FormatSubtitleBody(_, _)
FormatSubtitleBody(b, f) ==
    LET fmt == Lower(IF f \in {NoText, None} THEN <<"t", "x", "t">> ELSE f)
        Arrow == <<" ", "-", "-", ">", " ">>
        Txt(e) == <<"[">> \o FormatTimestamp(e.from) \o <<" ", "-", " ">>
                  \o FormatTimestamp(e.to) \o <<"]", " ">> \o e.content
        Srt(i) == << Str(i),
                     FormatTimestampSrt(b[i].from) \o Arrow \o FormatTimestampSrt(b[i].to),
                     b[i].content, <<>> >>
        Vtt(e) == << FormatTimestampVtt(e.from) \o Arrow \o FormatTimestampVtt(e.to),
                     e.content, <<>> >>
        Lrc(e) == <<"[">> \o FormatTimestampLrc(e.from) \o <<"]", " ">> \o e.content
        Text(t) == [tag |-> "text", text |-> t, calls |-> 1]
    IN  IF b = <<>> THEN [tag |-> "None", text |-> <<>>, calls |-> 1]
        ELSE IF fmt = <<"t", "x", "t">>
        THEN Text(JoinLines([i \in 1..Len(b) |-> Txt(b[i])]))
        ELSE IF fmt = <<"s", "r", "t">>
        THEN Text(Trim(JoinLines(Concat([i \in 1..Len(b) |-> Srt(i)])), WhiteSpace))
        ELSE IF fmt = <<"v", "t", "t">>
        THEN Text(Trim(JoinLines(<< <<"WEBVTT">>, <<>> >>
                                 \o Concat([i \in 1..Len(b) |-> Vtt(b[i])])), WhiteSpace))
        ELSE IF fmt = <<"l", "r", "c">>
        THEN Text(JoinLines([i \in 1..Len(b) |-> Lrc(b[i])]))
        ELSE [FormatSubtitleBody(b, FallbackFormat) EXCEPT !.calls = @ + 1]

\* re.sub(pattern, "", s) from position i on, for the two patterns of
\* _strip_timestamps: the time \d{1,2}:\d{2}(?::\d{2})?(?:[.,]\d{1,3})?
\* between \[\s* and \s*\] (bracketed), or between two \b
RECURSIVE RemoveTimes(_, _, _)
RemoveTimes(s, i, bracketed) ==
    LET Digit(k) == k >= 1 /\ k <= Len(s) /\ s[k] \in { DigitChars[d] : d \in 1..10 }
        Is(k, S) == k >= 1 /\ k <= Len(s) /\ s[k] \in S
        \* \w: a digit, a letter or "_"
        Word(k) == k >= 1 /\ k <= Len(s)
                   /\ s[k] \notin WhiteSpace
                                  \cup {":", ".", ",", "[", "]", "-", ">", "<", "/", "!", "?"}
        \* last positions of \d{1,2}:\d{2}, of the optional :\d{2} and of the
        \* optional fraction, for a time that starts at k
        Heads(k) == { k + a + 2 : a \in { a \in 1..2 :
                          /\ \A d \in 0..(a - 1) : Digit(k + d)
                          /\ Is(k + a, {":"})
                          /\ Digit(k + a + 1) /\ Digit(k + a + 2) } }
        Mids(k) == Heads(k) \cup { p + 3 : p \in { p \in Heads(k) :
                          Is(p + 1, {":"}) /\ Digit(p + 2) /\ Digit(p + 3) } }
        Ends(k) == Mids(k) \cup UNION { { q + 1 + c : c \in { c \in 1..3 :
                          /\ Is(q + 1, {".", ","})
                          /\ \A d \in 1..c : Digit(q + 1 + d) } } : q \in Mids(k) }
        Max(S) == CHOOSE x \in S : \A y \in S : y <= x
        first == RunEnd(s, i + 1, WhiteSpace) + 1
        closing(j) == RunEnd(s, j + 1, WhiteSpace) + 1
        inBrackets == { closing(j) : j \in { j \in Ends(first) : Is(closing(j), {"]"}) } }
        bare == { j \in Ends(i) : ~Word(j + 1) }
    IN  IF i > Len(s) THEN <<>>
        ELSE IF bracketed /\ s[i] = "[" /\ inBrackets # {}
        THEN RemoveTimes(s, Max(inBrackets) + 1, bracketed)
        ELSE IF ~bracketed /\ ~Word(i - 1) /\ bare # {}
        THEN RemoveTimes(s, Max(bare) + 1, bracketed)
        ELSE <<s[i]>> \o RemoveTimes(s, i + 1, bracketed)

\* VideoSummarizer._strip_timestamps
StripTimestamps(line) ==
    LET s == Trim(line, WhiteSpace)
    IN  IF s = <<>> THEN <<>>
        ELSE IF \A k \in 1..Len(s) : s[k] \in { DigitChars[d] : d \in 1..10 } THEN <<>>
        ELSE IF Contains(s, <<"-", "-", ">">>) THEN <<>>
        ELSE Trim(RemoveTimes(RemoveTimes(s, 1, TRUE), 1, FALSE), WhiteSpace)

\* VideoSummarizer._extract_text_content of a document with one page whose
\* subtitles field is subtitle_text
ExtractTextContent(subtitle_text) ==
    LET lines == SplitOn(subtitle_text, "\n")
        clean == [i \in 1..Len(lines) |-> CleanText(StripTimestamps(lines[i]))]
        Kept(l) == l # <<>> /\ l[1] # "["
    IN  IF subtitle_text = <<>> THEN <<>>
        ELSE JoinLines(SelectSeq(clean, Kept))

\* values of the argument subtitle_format: the four formats, other
\* spellings of them, an unknown format, the empty string and None
SubtitleFormats ==
    { <<"s", "r", "t">>, <<"S", "R", "T">>, <<"t", "x", "t">>, <<"v", "t", "t">>,
      <<"V", "t", "t">>, <<"l", "r", "c">>, <<"a", "s", "s">>, NoText, None }

\* extract_subtitles on the bundle's subtitle_data: "raise", "None" (no
\* text to return) or "document"
\*   subtitle_data_raw.get("body", []) raises on a non-dict;
\*   _format_subtitle_body returns None for a falsy body and raises when it
\*   iterates over a body that is not a list of objects
RenderOutcome(payload, f) ==
    IF payload.top # "obj" THEN "raise"
    ELSE IF payload.body \in {"missing", "null"} THEN "None"
    ELSE IF payload.body = "wrong" THEN "raise"
    ELSE LET subtitle_text == FormatSubtitleBody(payload.events, f)
         IN  IF subtitle_text.tag = "None" \/ subtitle_text.text = <<>> THEN "None"
             ELSE "document"

----------------------------------------------------------------------------
(* Idle values: what a variable holds before the operation that sets it    *)
(* has run, and in the specifications of operations that never use it.     *)

Idle ==
    [lastResp   |-> ListResp("none", "null", "missing", "missing", "missing", "missing", <<>>),
     listResult |-> [tag |-> "pending", tracks |-> <<>>],
     lastDl     |-> DownloadResp("none", <<>>, NoPayload),
     dlResult   |-> [tag |-> "pending", payload |-> NoPayload],
     videoData  |-> MetaResp("none", "null", "missing", "missing", "missing", "missing",
                             None, None, None, None),
     metaResp   |-> [net |-> "none", top |-> "null", code |-> "missing", data |-> "missing"],
     subMeta    |-> Track("none", "missing", <<>>, "missing", <<>>),
     video_info |-> [title |-> NoText, owner |-> NoText, duration |-> 0],
     result     |-> [tag |-> "pending", platform |-> "", source |-> "", events |-> <<>>,
                     format |-> NoText, subtitles |-> NoText,
                     language |-> NoText, is_ai |-> FALSE],
     jsonResult |-> [tag |-> "pending", slice |-> <<>>],
     player     |-> NoPlayer,
     ytTrack    |-> Trk.none,
     caption    |-> CaptionResp("none", "null", "missing", <<>>),
     captionBody |-> [tag |-> "pending", body |-> <<>>],
     formatted  |-> [tag |-> "pending", text |-> <<>>, calls |-> 0],
     retryOutcome |-> [tag |-> "pending", value |-> "None"]]

\* every group of variables outside `used` holds its idle values
IdleExcept(used) ==
    /\ "list" \notin used =>
          /\ aid = None /\ cid = None /\ bvid = None
          /\ cand = 1
          /\ lastResp = Idle.lastResp
          /\ listResult = Idle.listResult
    /\ "dl" \notin used =>
          /\ dlArg = <<>> /\ dlUrl = <<>>
          /\ strat = 1
          /\ lastDl = Idle.lastDl
          /\ lastError = <<>>
          /\ dlResult = Idle.dlResult
    /\ "scan" \notin used =>
          /\ text = NoText /\ marker = NoText
          /\ brace_start = 0 /\ idx = 0 /\ depth = 0
          /\ in_string = FALSE /\ escape = FALSE
          /\ jsonResult = Idle.jsonResult
    /\ "ts" \notin used =>
          /\ seconds = 0 /\ tsFormat = "none" /\ stamp = NoText
    /\ "pipe" \notin used =>
          /\ video_url = NoText
          /\ adapters = <<>>
          /\ adapter = "none"
          /\ direct = FALSE
          /\ videoId = NoText
          /\ videoData = Idle.videoData
          /\ metaResp = Idle.metaResp
          /\ subMeta = Idle.subMeta
          /\ fetchOutcome = "pending"
          /\ video_info = Idle.video_info
          /\ result = Idle.result
    /\ requests = <<>>
    /\ responses = <<>>
    /\ diag = <<>>
    /\ "yt" \notin used =>
          /\ player = Idle.player
          /\ ytTrack = Idle.ytTrack
          /\ caption = Idle.caption
          /\ captionBody = Idle.captionBody
    /\ "render" \notin used =>
          /\ body = <<>> /\ subtitle_format = NoText
          /\ formatted = Idle.formatted
          /\ text_content = NoText
    /\ "cookie" \notin used =>
          /\ heap = <<>>
          /\ browser_cookie_cache = 0
          /\ returns = <<>>
          /\ readerCalls = 0
    /\ "retry" \notin used =>
          /\ max_retries = 0
          /\ exceptions = {}
          /\ attempt = 0
          /\ last_exception = "None"
          /\ calls = <<>>
          /\ retryOutcome = Idle.retryOutcome
    /\ "main" \notin used =>
          /\ cacheFile = "absent"
          /\ subtitle_cache_hit = FALSE
          /\ cookieReads = 0
          /\ adapterBuilds = 0

----------------------------------------------------------------------------
(* get_subtitle_list, one loop iteration per step.                         *)

InitList ==
    /\ entry = "get_subtitle_list"
    /\ pc = "list"
    /\ aid \in {None, <<"170001">>}
    /\ cid \in {None, <<"279786">>}
    /\ bvid \in {None, <<"BV", "17x411w7KC">>}
    /\ cand = 1
    /\ lastResp = Idle.lastResp
    /\ listResult = Idle.listResult
    /\ IdleExcept({"list"})

pipeRest == <<video_url, adapters, adapter, direct, videoId, videoData, metaResp, subMeta, video_info>>

\* An exception that leaves a BilibiliAPI call is handled nowhere between
\* the call and the caller of extract_subtitles: it leaves the adapter's
\* fetch_subtitle_bundle and extract_subtitles as well.
Propagate ==
    IF entry = "extract_subtitles"
    THEN /\ fetchOutcome' = "raised"
         /\ result' = [Idle.result EXCEPT !.tag = "raised"]
         /\ UNCHANGED pipeRest
    ELSE UNCHANGED pipeVars

\* what the loop does once the body ended with `continue`
ListAdvance ==
    IF cand = Len(EndpointCandidates)
    THEN /\ pc' = "list_done"
         /\ listResult' = [tag |-> "None", tracks |-> <<>>]
         /\ cand' = cand
    ELSE /\ pc' = "list"
         /\ listResult' = listResult
         /\ cand' = cand + 1

\* a candidate whose clean_params lack cid: no request
ListSkip ==
    /\ pc = "list"
    /\ CandidateSkipped(cand, aid, cid, bvid)
    /\ ListAdvance
    /\ UNCHANGED <<entry, aid, cid, bvid, lastResp, dlVars, netVars, diag, pipeVars, scanVars, tsVars, ytVars, renderVars, extVars>>

\* a candidate that is requested, and what the body does with the response
ListTry ==
    /\ pc = "list"
    /\ ~CandidateSkipped(cand, aid, cid, bvid)
    /\ \E resp \in ListResponses :
        /\ requests' = Append(requests, ListRequest(cand, aid, cid, bvid))
        /\ responses' = Append(responses, resp.net)
        /\ lastResp' = resp
        /\ CASE ListIteration(resp) = "return" ->
                  /\ pc' = "list_done"
                  /\ listResult' = [tag |-> "tracks", tracks |-> Available(resp.tracks)]
                  /\ cand' = cand
                  /\ UNCHANGED pipeVars
             [] ListIteration(resp) = "raise" ->
                  /\ pc' = "raised"
                  /\ listResult' = [tag |-> "raised", tracks |-> <<>>]
                  /\ cand' = cand
                  /\ Propagate
             [] OTHER -> ListAdvance /\ UNCHANGED pipeVars
    /\ UNCHANGED <<entry, aid, cid, bvid, dlVars, diag, scanVars, tsVars, ytVars, renderVars, extVars>>

NextList == ListSkip \/ ListTry

SpecList == InitList /\ [][NextList]_vars

----------------------------------------------------------------------------
(* get_subtitle_content, one strategy per step.                            *)

InitContent ==
    /\ entry = "get_subtitle_content"
    /\ pc = "dl"
    /\ dlArg \in { SubtitleUrl[k] : k \in DOMAIN SubtitleUrl }
    /\ dlUrl = NormalizeSubtitleUrl(dlArg)
    /\ strat = 1
    /\ lastDl = Idle.lastDl
    /\ lastError = <<>>
    /\ dlResult = Idle.dlResult
    /\ IdleExcept({"dl"})

\* one strategy: the request, and either the return of its payload or the
\* except clause; after the last strategy the diagnostic and `return None`
ContentTry ==
    /\ pc = "dl"
    /\ \E resp \in DownloadResponses :
        /\ requests' = Append(requests, DownloadRequest(strat, dlUrl))
        /\ responses' = Append(responses, resp.net)
        /\ lastDl' = resp
        /\ IF resp.net = "ok"
           THEN /\ pc' = "dl_done"
                /\ dlResult' = [tag |-> "payload", payload |-> resp.payload]
                /\ UNCHANGED <<strat, lastError, diag>>
           ELSE /\ lastError' = resp.err
                /\ IF strat = Len(RequestStrategies)
                   THEN /\ pc' = "dl_done"
                        /\ dlResult' = DownloadFailureResult(resp.err)
                        /\ diag' = Append(diag, DownloadFailureMessage(resp.err))
                        /\ strat' = strat
                   ELSE /\ pc' = "dl"
                        /\ strat' = strat + 1
                        /\ UNCHANGED <<dlResult, diag>>
    /\ UNCHANGED <<entry, dlArg, dlUrl, listVars, pipeVars, scanVars, tsVars, ytVars, renderVars, extVars>>

SpecContent == InitContent /\ [][ContentTry]_vars

----------------------------------------------------------------------------
(* _extract_json_object_by_marker, one character per step.                 *)

\* longest text that is scanned exhaustively
MaxTextLen == 5

\* marker followed by the object {"a":"}\"}"}
ExampleText ==
    <<"m", "{", "\"", "a", "\"", ":", "\"", "}", "\\", "\"",
      "}", "\"", "}">>

ScanTexts ==
    UNION { [1..n -> {"m", "a", "{", "}", "\"", "\\"}] : n \in 0..MaxTextLen }
    \cup {ExampleText}

InitJson ==
    /\ entry = "_extract_json_object_by_marker"
    /\ pc = "scan_begin"
    /\ text \in ScanTexts
    /\ marker \in {<<"m">>, <<"m", "a">>}
    /\ brace_start = 0 /\ idx = 0 /\ depth = 0
    /\ in_string = FALSE /\ escape = FALSE
    /\ jsonResult = Idle.jsonResult
    /\ IdleExcept({"scan"})

\* the two find calls and the initialisation of the scan
ScanBegin ==
    /\ pc = "scan_begin"
    /\ LET start_idx == Find(text, marker, 1)
           brace     == IF start_idx = 0 THEN 0 ELSE Find(text, <<"{">>, start_idx)
       IN  /\ brace_start' = brace
           /\ idx' = brace
           /\ IF brace = 0
              THEN pc' = "scan_done" /\ jsonResult' = [tag |-> "None", slice |-> <<>>]
              ELSE pc' = "scan" /\ jsonResult' = jsonResult
    /\ depth' = 0
    /\ in_string' = FALSE
    /\ escape' = FALSE
    /\ UNCHANGED <<entry, text, marker, listVars, dlVars, netVars, diag, pipeVars, tsVars, ytVars, renderVars, extVars>>

\* where the loop goes after the character at idx: the next character, or
\* `return None` once the text is exhausted
ScanAdvance ==
    /\ idx' = idx + 1
    /\ IF idx = Len(text)
       THEN pc' = "scan_done" /\ jsonResult' = [tag |-> "None", slice |-> <<>>]
       ELSE pc' = "scan" /\ jsonResult' = jsonResult

\* one iteration of the scan loop
ScanStep ==
    /\ pc = "scan"
    /\ LET ch == text[idx]
       IN  IF in_string
           THEN /\ in_string' = StringStep(ch, escape).in_string
                /\ escape' = StringStep(ch, escape).escape
                /\ depth' = depth
                /\ ScanAdvance
           ELSE /\ escape' = escape
                /\ in_string' = (ch = "\"")
                /\ depth' = IF ch = "\"" THEN depth ELSE DepthStep(ch, depth)
                /\ IF ch = "}" /\ DepthStep(ch, depth) = 0
                   THEN /\ pc' = "scan_done"
                        /\ jsonResult' = [tag |-> "slice", slice |-> SubSeq(text, brace_start, idx)]
                        /\ idx' = idx
                   ELSE ScanAdvance
    /\ UNCHANGED <<entry, text, marker, brace_start, listVars, dlVars, netVars,
                   diag, pipeVars, tsVars, ytVars, renderVars, extVars>>

NextJson == ScanBegin \/ ScanStep

SpecJson == InitJson /\ [][NextJson]_vars

\* the scan loop is a plain for loop: it keeps running until it returns
SpecJsonFair == SpecJson /\ WF_vars(NextJson)

----------------------------------------------------------------------------
(* The timestamp formatters, each called on one seconds value.             *)

\* half width of the windows of seconds values that are tried tick by tick
WindowTicks == 120

\* the ticks around 0 s, 1 s, 2 s, 1 min, 2 min, 1 h and 100 h
TimestampInputs ==
    UNION { (c * TicksPerSecond - WindowTicks)..(c * TicksPerSecond + WindowTicks) :
              c \in {0, 1, 2, 60, 120, 3600, 360000} }

InitTs ==
    /\ entry = "_format_timestamp"
    /\ pc = "ts_begin"
    /\ seconds \in TimestampInputs
    /\ tsFormat = "none"
    /\ stamp = NoText
    /\ IdleExcept({"ts"})

TsReturn(f, s) ==
    /\ pc = "ts_begin"
    /\ pc' = "ts_done"
    /\ tsFormat' = f
    /\ stamp' = s
    /\ UNCHANGED <<entry, seconds, listVars, dlVars, netVars, diag, pipeVars, scanVars, ytVars, renderVars, extVars>>

CallFormatTimestamp == TsReturn("txt", FormatTimestamp(seconds))

CallFormatTimestampSrt == TsReturn("srt", FormatTimestampSrt(seconds))

CallFormatTimestampVtt == TsReturn("vtt", FormatTimestampVtt(seconds))

CallFormatTimestampLrc == TsReturn("lrc", FormatTimestampLrc(seconds))

NextTs ==
    \/ CallFormatTimestamp
    \/ CallFormatTimestampSrt
    \/ CallFormatTimestampVtt
    \/ CallFormatTimestampLrc

SpecTs == InitTs /\ [][NextTs]_vars

----------------------------------------------------------------------------
(* _pick_caption_track, called on one list of caption tracks.              *)

\* longest track list that is tried
MaxPickTracks == 3

\* the track lists: every track an object, machine-generated or not, its
\* languageCode a text, missing or null
InitPick ==
    LET langs == { <<"present", <<"z", "h">>>>, <<"present", <<"Z", "H", "-", "C", "N">>>>,
                   <<"present", <<"e", "n">>>>, <<"present", <<"E", "n">>>>,
                   <<"present", <<"j", "a">>>>, <<"missing", <<>>>>, <<"null", <<>>>> }
        tracks == { YtTrack("obj", asr, l[1], l[2], "missing", <<>>, "missing") :
                      asr \in BOOLEAN, l \in langs }
    IN  /\ entry = "_pick_caption_track"
        /\ pc = "pick"
        /\ player \in { Player(<<"pick">>, "obj", "obj", "num", "obj", "obj", "list", ts) :
                           ts \in UNION { [1..n -> tracks] : n \in 0..MaxPickTracks } }
        /\ ytTrack = Idle.ytTrack
        /\ caption = Idle.caption
        /\ captionBody = Idle.captionBody
        /\ IdleExcept({"yt"})

\* the call: sorted_tracks[0] if sorted_tracks else None
PickCall ==
    /\ pc = "pick"
    /\ pc' = "pick_done"
    /\ ytTrack' = IF player.tracks = <<>>
                  THEN YtTrack("None", FALSE, "missing", <<>>, "missing", <<>>, "missing")
                  ELSE PickCaptionTrack(player.tracks)
    /\ UNCHANGED <<entry, player, caption, captionBody, listVars, dlVars, netVars, diag,
                   pipeVars, scanVars, tsVars, renderVars, extVars>>

SpecPick == InitPick /\ [][PickCall]_vars

----------------------------------------------------------------------------
(* _download_caption_track on one caption track.                           *)

\* longest transcript whose events are tried in every combination
MaxEvents == 2

\* the tracks the function is called with (baseUrl with escaped ampersands,
\* a blank value, repeated names, a fragment, no query; no baseUrl) and the
\* answers to the caption request
CaptionFixtures ==
    LET base == Https \o <<"www.", "youtube.com", "/", "api", "/", "timedtext">>
        queries ==
            { <<>>,
              <<"?", "v", "=", "abc", "&", "lang", "=", "en">>,
              <<"?", "v", "=", "abc", "\\u0026", "lang", "=", "en", "&amp;", "fmt", "=", "srv3">>,
              <<"?", "v", "=", "abc", "&", "name", "=", "&", "lang", "=", "en">>,
              <<"?", "fmt", "=", "srv3", "&", "v", "=", "abc", "&", "fmt", "=", "vtt",
                "&", "v", "=", "d">>,
              <<"?", "v", "=", "a", "%2C", "b", "&", "sig", "=", "x", "+", "y", "#", "frag">> }
        events ==
            { YtEvent("obj", "list", <<<<"Hello", " ">>, <<"<", "b", ">", "world", "\n">>>>,
                      1200, 2300, FALSE),
              YtEvent("obj", "list", <<<<" ", "next", "\n", "\n", "line">>>>, 4000, 0, FALSE),
              YtEvent("obj", "list", <<<<"x">>>>, 7000, 0 - 5, FALSE),
              YtEvent("obj", "list", <<<<"\n">>, <<" ">>>>, 5000, 100, TRUE),
              YtEvent("obj", "list", <<>>, 5500, 100, FALSE),
              YtEvent("obj", "missing", <<>>, 6000, 100, FALSE),
              YtEvent("obj", "bad", <<>>, 0, 0, FALSE),
              YtEvent("obj", "list", <<<<"x">>>>, 0, 0, TRUE),
              YtEvent("notdict", "missing", <<>>, 0, 0, FALSE) }
    IN  [tracks |->
             { YtTrack("obj", FALSE, "present", <<"e", "n">>, "str", base \o q, "obj") :
                 q \in queries }
             \cup { YtTrack("obj", FALSE, "present", <<"e", "n">>, "str", <<>>, "obj"),
                    Trk.noUrl, Trk.urlWrong },
         responses |->
             { CaptionResp("ok", "obj", "list", es) :
                 es \in UNION { [1..n -> events] : n \in 0..MaxEvents } }
             \cup { CaptionResp("fail", "null", "missing", <<>>),
                    CaptionResp("ok", "null", "missing", <<>>),
                    CaptionResp("ok", "nonobj", "missing", <<>>),
                    CaptionResp("ok", "obj", "missing", <<>>),
                    CaptionResp("ok", "obj", "null", <<>>),
                    CaptionResp("ok", "obj", "wrong", <<>>) }]

InitCaption ==
    /\ entry = "_download_caption_track"
    /\ pc = "caption"
    /\ player = Idle.player
    /\ ytTrack \in CaptionFixtures.tracks
    /\ caption = Idle.caption
    /\ captionBody = Idle.captionBody
    /\ IdleExcept({"yt"})

\* the whole function: `if not base_url`, the request, the loop over the
\* events and the return
DownloadCaptionTrack ==
    /\ pc = "caption"
    /\ entry = "_download_caption_track"
    /\ IF ytTrack.urlKey \in {"missing", "null"} \/ (ytTrack.urlKey = "str" /\ ytTrack.baseUrl = <<>>)
       THEN /\ captionBody' = CaptionResult(Idle.caption)
            /\ pc' = "caption_done"
            /\ UNCHANGED <<caption, netVars, diag>>
       ELSE IF ytTrack.urlKey = "wrong"          \* base_url.replace on a value that is no str
       THEN /\ captionBody' = [tag |-> "raised", body |-> <<>>]
            /\ pc' = "raised"
            /\ UNCHANGED <<caption, netVars, diag>>
       ELSE \E resp \in CaptionFixtures.responses :
            /\ requests' = Append(requests, CaptionRequest(ytTrack))
            /\ responses' = Append(responses, resp.net)
            /\ caption' = resp
            /\ captionBody' = CaptionResult(resp)
            /\ pc' = IF CaptionResult(resp).tag = "raised" THEN "raised" ELSE "caption_done"
            /\ diag' = IF resp.net = "ok" THEN diag ELSE <<"caption download failed">>
    /\ UNCHANGED <<entry, player, ytTrack, listVars, dlVars, pipeVars, scanVars, tsVars,
                   renderVars, extVars>>

SpecCaption == InitCaption /\ [][DownloadCaptionTrack]_vars

----------------------------------------------------------------------------
(* _format_subtitle_body on a body, then _extract_text_content on the      *)
(* text it returned.                                                       *)

\* longest body that is rendered
MaxBody == 2

InitRender ==
    LET texts == { <<"hello">>,
                   <<"meet", " ", "at", " ", "1", "2", ":", "3", "0">>,
                   <<"4", "2">>,
                   <<"[", "Music", "]">>,
                   <<"a", " ", "-", "-", ">", " ", "b">>,
                   <<"a", "\n", "b">> }
        times == { <<0, 15000>>, <<6001, 17503>>, <<5000, 4000>> }
        events == { Event(t[1], t[2], c) : t \in times, c \in texts }
    IN  /\ entry = "_format_subtitle_body"
        /\ pc = "render"
        /\ body \in UNION { [1..n -> events] : n \in 0..MaxBody }
        /\ subtitle_format \in SubtitleFormats
        /\ formatted = Idle.formatted
        /\ text_content = NoText
        /\ IdleExcept({"render"})

FormatCall ==
    /\ pc = "render"
    /\ pc' = "rendered"
    /\ formatted' = FormatSubtitleBody(body, subtitle_format)
    /\ UNCHANGED <<entry, body, subtitle_format, text_content, listVars, dlVars, netVars,
                   diag, pipeVars, scanVars, tsVars, ytVars, extVars>>

\* the summarizer reads the document: `if subtitle_text:` and the line loop
ExtractTextCall ==
    /\ pc = "rendered"
    /\ formatted.tag = "text"
    /\ pc' = "stripped"
    /\ text_content' = ExtractTextContent(formatted.text)
    /\ UNCHANGED <<entry, body, subtitle_format, formatted, listVars, dlVars, netVars,
                   diag, pipeVars, scanVars, tsVars, ytVars, extVars>>

NextRender == FormatCall \/ ExtractTextCall

SpecRender == InitRender /\ [][NextRender]_vars

----------------------------------------------------------------------------
(* SubtitleExtractor.extract_subtitles with the two adapters: one step per *)
(* HTTP request, each step running the code up to the next request.        *)

InitExtract ==
    /\ entry = "extract_subtitles"
    /\ pc = "start"
    /\ video_url \in InputUrls
    /\ adapters = <<>>
    /\ adapter = "none"
    /\ direct = FALSE
    /\ videoId = NoText
    /\ videoData = Idle.videoData
    /\ metaResp = Idle.metaResp
    /\ subMeta = Idle.subMeta
    /\ fetchOutcome = "pending"
    /\ video_info = Idle.video_info
    /\ result = Idle.result
    /\ IdleExcept({"pipe"})

\* video_info of the Bilibili adapter's bundle: the placeholder of a direct
\* caption-data link, else built from VideoInfo(video_data) (the values of
\* the keys title, owner.name and duration are the fixture's)
BilibiliVideoInfo(isDirect, vd) ==
    IF isDirect
    THEN [title |-> <<"Bilibili AI Subtitle">>, owner |-> <<>>, duration |-> 0]
    ELSE [title |-> <<"Never Gonna Give You Up">>,
          owner |-> IF vd.owner = "obj" THEN <<"Rick Astley">> ELSE <<>>,
          duration |-> 213]

\* video_info the YouTube adapter builds from videoDetails
YoutubeVideoInfo(p) ==
    IF p.details = "obj"
    THEN [title |-> <<"Never Gonna Give You Up">>, owner |-> <<"Rick Astley">>, duration |-> 213]
    ELSE [title |-> <<>>, owner |-> <<>>, duration |-> 0]

\* the adapter returned None, after printing the messages said (if any):
\* extract_subtitles prints and returns None
FetchReturnsNone(said) ==
    /\ fetchOutcome' = "None"
    /\ video_info' = video_info
    /\ result' = [Idle.result EXCEPT !.tag = "None"]
    /\ diag' = diag \o said \o <<"no subtitles available">>
    /\ pc' = "done"

\* an exception leaves the adapter (and extract_subtitles with it)
FetchRaises ==
    /\ fetchOutcome' = "raised"
    /\ video_info' = video_info
    /\ result' = [Idle.result EXCEPT !.tag = "raised"]
    /\ diag' = diag
    /\ pc' = "raised"

\* the adapter returned a bundle: extract_subtitles renders its body
FetchReturnsBundle(platform, info, payload) ==
    /\ fetchOutcome' = "bundle"
    /\ video_info' = info
    /\ diag' = diag
    \* the argument subtitle_format, which is read nowhere before this point:
    \* the default, the other two cue formats, an unknown format, None
    /\ \E f \in {<<"s", "r", "t">>, <<"v", "t", "t">>, <<"l", "r", "c">>, <<"a", "s", "s">>,
                 None} :
         LET m == subMeta'
             \* subtitle_meta.get("lan")
             lan == IF m.lanKey = "present" THEN m.lan ELSE None
             \* str(subtitle_meta.get("lan", ""))
             lanStr == CASE m.lanKey = "present" -> m.lan
                         [] m.lanKey = "null" -> <<"N", "o", "n", "e">>
                         [] OTHER -> <<>>
         IN
         CASE RenderOutcome(payload, f) = "raise" ->
                /\ result' = [Idle.result EXCEPT !.tag = "raised"]
                /\ pc' = "raised"
           [] RenderOutcome(payload, f) = "None" ->
                /\ result' = [Idle.result EXCEPT !.tag = "None"]
                /\ pc' = "done"
           [] OTHER ->
                /\ result' = [tag |-> "document", platform |-> platform,
                              source |-> "subtitle", events |-> payload.events,
                              format |-> f,
                              subtitles |-> FormatSubtitleBody(payload.events, f).text,
                              language |-> lan,
                              \* "ai" in str(subtitle_meta.get("lan", "")).lower()
                              is_ai |-> Contains(Lower(lanStr), <<"a", "i">>)]
                /\ pc' = "done"

\* the call of get_subtitle_content(u) up to its first request
StartDownload(u) ==
    /\ dlArg' = u
    /\ dlUrl' = NormalizeSubtitleUrl(u)
    /\ strat' = 1
    /\ lastDl' = Idle.lastDl
    /\ lastError' = <<>>
    /\ dlResult' = Idle.dlResult
    /\ pc' = "dl"

\* extract_subtitles from its call to the first request: _pick_adapter
\* (creating the adapters), and the adapter's fetch up to its first request
ExtractCall ==
    /\ pc = "start"
    /\ adapters' = RegisteredAdapters
    /\ adapter' = PickAdapter(video_url)
    /\ CASE PickAdapter(video_url) = "none" ->
              /\ fetchOutcome' = "notcalled"
              /\ video_info' = video_info
              /\ result' = [Idle.result EXCEPT !.tag = "None"]
              /\ diag' = Append(diag, "unsupported platform")
              /\ pc' = "done"
              /\ UNCHANGED <<direct, videoId, dlVars>>
         [] PickAdapter(video_url) = "bilibili" ->
              IF Contains(video_url, DirectLinkPath)
              THEN /\ direct' = TRUE
                   /\ StartDownload(video_url)
                   /\ UNCHANGED <<videoId, fetchOutcome, video_info, result, diag>>
              ELSE /\ direct' = FALSE
                   /\ videoId' = BilibiliExtractVideoId(video_url)
                   /\ IF BilibiliExtractVideoId(video_url) = NoText
                      THEN FetchReturnsNone(<<>>)
                      ELSE pc' = "meta" /\ UNCHANGED <<fetchOutcome, video_info, result, diag>>
                   /\ UNCHANGED dlVars
         [] PickAdapter(video_url) = "youtube" ->
              /\ direct' = FALSE
              /\ videoId' = YoutubeExtractVideoId(video_url)
              /\ IF YoutubeExtractVideoId(video_url) = NoText
                 THEN FetchReturnsNone(<<>>)
                 ELSE pc' = "page" /\ UNCHANGED <<fetchOutcome, video_info, result, diag>>
              /\ UNCHANGED dlVars
    /\ UNCHANGED <<entry, video_url, videoData, metaResp, subMeta, listVars, netVars, scanVars, tsVars, ytVars, renderVars, extVars>>

\* fetch_subtitle_bundle: get_video_info, VideoInfo, the first page's cid,
\* and get_ai_subtitle_data up to its first request
BiliMeta ==
    /\ pc = "meta"
    /\ \E resp \in MetaResponses :
        /\ requests' = Append(requests, MetaRequest(videoId))
        /\ responses' = Append(responses, resp.net)
        /\ videoData' = resp
        /\ metaResp' = MetaRead(resp)
        /\ IF \/ GetVideoInfo(resp) = "raise"
              \/ /\ GetVideoInfo(resp) = "data"
                 /\ ~VideoDataFalsy(resp)
                 /\ VideoInfoRaises(resp)
           THEN FetchRaises /\ UNCHANGED <<aid, cid, bvid, cand>>
           ELSE IF \/ GetVideoInfo(resp) = "None"
                   \/ VideoDataFalsy(resp)
                   \/ FirstPageCid(resp) = None
           THEN FetchReturnsNone(<<>>) /\ UNCHANGED <<aid, cid, bvid, cand>>
           ELSE /\ cid' = FirstPageCid(resp)
                /\ IF StartsWith(videoId, <<"BV">>)
                   THEN pc' = "meta2" /\ UNCHANGED <<aid, bvid, cand>>
                   ELSE /\ aid' = Tail(videoId)
                        /\ bvid' = None
                        /\ cand' = 1
                        /\ pc' = "list"
                /\ UNCHANGED <<fetchOutcome, video_info, result, diag>>
    /\ UNCHANGED <<entry, video_url, adapters, adapter, direct, videoId, subMeta,
                   lastResp, listResult, dlVars, scanVars, tsVars, ytVars, renderVars, extVars>>

\* get_ai_subtitle_data for a BV id: get_video_info once more, for aid and bvid
BiliMeta2 ==
    /\ pc = "meta2"
    /\ \E resp \in MetaResponses :
        /\ requests' = Append(requests, MetaRequest(videoId))
        /\ responses' = Append(responses, resp.net)
        /\ metaResp' = MetaRead(resp)
        /\ IF \/ GetVideoInfo(resp) = "raise"
              \/ GetVideoInfo(resp) = "data" /\ resp.data = "wrong"
           THEN FetchRaises /\ UNCHANGED <<aid, bvid, cand>>
           ELSE IF GetVideoInfo(resp) = "None" \/ VideoDataFalsy(resp)
           THEN FetchReturnsNone(<<>>) /\ UNCHANGED <<aid, bvid, cand>>
           ELSE /\ aid' = resp.aid
                /\ bvid' = IF resp.bvid # None THEN resp.bvid ELSE videoId
                /\ cand' = 1
                /\ pc' = "list"
                /\ UNCHANGED <<fetchOutcome, video_info, result, diag>>
    /\ UNCHANGED <<entry, video_url, adapters, adapter, direct, videoId, videoData, subMeta,
                   video_info, cid, lastResp, listResult, dlVars, scanVars, tsVars, ytVars, renderVars, extVars>>

\* get_ai_subtitle_data after get_subtitle_list returned: the AI-track search
\* and the call of get_subtitle_content
BiliAfterList ==
    /\ pc = "list_done"
    /\ entry = "extract_subtitles"
    /\ IF listResult.tag = "None"
       THEN FetchReturnsNone(<<>>) /\ UNCHANGED <<subMeta, dlVars>>
       ELSE IF AiSearch(listResult.tracks).outcome = "raise"
       THEN FetchRaises /\ UNCHANGED <<subMeta, dlVars>>
       ELSE /\ subMeta' = AiSearch(listResult.tracks).track
            /\ StartDownload(AiSearch(listResult.tracks).track.url)
            /\ UNCHANGED <<fetchOutcome, video_info, result, diag>>
    \* the locals of get_subtitle_list are gone, and the list is not read again
    /\ cand' = 1
    /\ lastResp' = Idle.lastResp
    /\ listResult' = Idle.listResult
    /\ UNCHANGED <<entry, video_url, adapters, adapter, direct, videoId, videoData, metaResp,
                   aid, cid, bvid, netVars, scanVars, tsVars, ytVars, renderVars, extVars>>

\* the Bilibili adapter after get_subtitle_content returned, and the rest of
\* extract_subtitles
BiliAfterDownload ==
    /\ pc = "dl_done"
    /\ entry = "extract_subtitles"
    /\ adapter = "bilibili"
    /\ IF PayloadFalsy(dlResult)
       THEN FetchReturnsNone(<<>>) /\ UNCHANGED subMeta
       ELSE IF direct /\ dlResult.payload.top # "obj"
       THEN FetchRaises /\ UNCHANGED subMeta          \* subtitle_data.get("lang", "")
       \* subtitle_meta of the direct-link bundle holds the payload's lang
       ELSE /\ subMeta' = IF direct
                          THEN Track("obj", "present", dlResult.payload.lang, "missing", <<>>)
                          ELSE subMeta
            /\ FetchReturnsBundle("bilibili",
                   BilibiliVideoInfo(direct, videoData),
                   dlResult.payload)
    /\ UNCHANGED <<entry, video_url, adapters, adapter, direct, videoId, videoData, metaResp,
                   listVars, dlVars, netVars, scanVars, tsVars, ytVars, renderVars, extVars>>

\* the YouTube adapter's watch-page request and the start of
\* _extract_player_response
YtPage ==
    /\ pc = "page"
    /\ \E resp \in PageResponses :
        /\ requests' = Append(requests, PageRequest(videoId))
        /\ responses' = Append(responses, resp.net)
        \* _get_watch_page returns response.text, or None; `if not html`
        /\ IF resp.net # "ok" \/ resp.page = NoText
           THEN /\ IF resp.net = "ok"
                   THEN FetchReturnsNone(<<>>)
                   ELSE FetchReturnsNone(<<"watch page failed">>)
                /\ UNCHANGED <<text, marker>>
           ELSE /\ text' = resp.page
                /\ marker' = Markers[1]
                /\ pc' = "scan_begin"
                /\ UNCHANGED <<fetchOutcome, video_info, result, diag>>
    /\ UNCHANGED <<entry, video_url, adapters, adapter, direct, videoId, videoData, metaResp, subMeta,
                   listVars, dlVars, brace_start, idx, depth, in_string, escape,
                   jsonResult, tsVars, ytVars, renderVars, extVars>>

\* what _extract_json_object_by_marker returned, parsed
ParsedPlayer == IF jsonResult.tag = "slice" THEN JsonLoads(jsonResult.slice) ELSE NoPlayer

\* _extract_player_response goes on to its second marker
YtNextMarker ==
    /\ pc = "scan_done"
    /\ entry = "extract_subtitles"
    /\ ParsedPlayer = NoPlayer
    /\ marker = Markers[1]
    /\ marker' = Markers[2]
    /\ jsonResult' = Idle.jsonResult
    /\ pc' = "scan_begin"
    /\ UNCHANGED <<entry, text, brace_start, idx, depth, in_string, escape, listVars,
                   dlVars, netVars, diag, pipeVars, tsVars, ytVars, renderVars, extVars>>

\* fetch_subtitle_bundle once _extract_player_response returned, up to the
\* caption request
YtAfterScan ==
    /\ pc = "scan_done"
    /\ entry = "extract_subtitles"
    /\ ParsedPlayer = NoPlayer => marker = Markers[2]
    /\ IF ParsedPlayer = NoPlayer \/ ParsedPlayer.top = "empty"
       THEN FetchReturnsNone(<<"cannot parse player response">>) /\ UNCHANGED <<player, ytTrack>>
       ELSE /\ player' = ParsedPlayer
            /\ CASE CaptionTracks(ParsedPlayer) = "None" ->
                      FetchReturnsNone(<<"no caption tracks">>) /\ UNCHANGED ytTrack
                 [] CaptionTracks(ParsedPlayer) \in {"raise", "wrong"} ->
                      FetchRaises /\ UNCHANGED ytTrack
                 [] OTHER ->
                      LET selected == PickCaptionTrack(ParsedPlayer.tracks)
                      IN  \* a track that is no object has no get()
                          IF \/ \E i \in 1..Len(ParsedPlayer.tracks) :
                                    ParsedPlayer.tracks[i].kind = "notdict"
                             \/ selected.urlKey = "wrong"
                          THEN FetchRaises /\ UNCHANGED ytTrack
                          ELSE IF selected.kind = "empty" \/ selected.urlKey \in {"missing", "null"}
                          THEN FetchReturnsNone(<<>>) /\ ytTrack' = selected
                          ELSE /\ ytTrack' = selected
                               /\ pc' = "caption"
                               /\ UNCHANGED <<fetchOutcome, video_info, result, diag>>
    /\ UNCHANGED <<entry, video_url, adapters, adapter, direct, videoId, videoData, metaResp, subMeta,
                   caption, captionBody, listVars, dlVars, netVars, scanVars, tsVars,
                   renderVars, extVars>>

\* _download_caption_track from its request on, and the rest of
\* fetch_subtitle_bundle and extract_subtitles
YtCaption ==
    /\ pc = "caption"
    /\ \E resp \in CaptionResponses :
        /\ requests' = Append(requests, CaptionRequest(ytTrack))
        /\ responses' = Append(responses, resp.net)
        /\ caption' = resp
        /\ captionBody' = CaptionResult(resp)
        /\ CASE CaptionOutcome(resp) = "None" ->
                  /\ IF resp.net = "ok"
                     THEN FetchReturnsNone(<<>>)
                     ELSE FetchReturnsNone(<<"caption download failed">>)
                  /\ UNCHANGED subMeta
             [] CaptionOutcome(resp) = "raise" ->
                  FetchRaises /\ UNCHANGED subMeta
             [] OTHER ->
                  /\ IF BundleRaises(player, ytTrack)
                     THEN FetchRaises /\ UNCHANGED subMeta
                     \* subtitle_meta holds the track's languageCode
                     ELSE /\ subMeta' = Track("obj", ytTrack.langKey, ytTrack.lang, "missing", <<>>)
                          /\ FetchReturnsBundle("youtube", YoutubeVideoInfo(player),
                                 Payload("obj", <<>>, "list", CaptionBody(resp.events)))
    /\ UNCHANGED <<entry, video_url, adapters, adapter, direct, videoId, videoData, metaResp,
                   player, ytTrack, listVars, dlVars, scanVars, tsVars, renderVars, extVars>>

\* ListSkip is not among the steps: the adapter calls get_subtitle_list with
\* a cid that is not None, so no candidate is skipped
Next ==
    \/ ExtractCall
    \/ BiliMeta
    \/ BiliMeta2
    \/ ListTry
    \/ BiliAfterList
    \/ ContentTry
    \/ BiliAfterDownload
    \/ YtPage
    \/ ScanBegin
    \/ ScanStep
    \/ YtNextMarker
    \/ YtAfterScan
    \/ YtCaption

Spec == InitExtract /\ [][Next]_vars

-----------------------------------------------------------------------------
(* Config._load_bilibili_cookie_from_browser and its callers.  A dict is an *)
(* object of the heap, named by its position; a mapping is a set of        *)
(* <<name, value>> pairs; the object 0 is None.                            *)

MaxLoadCalls == 3

\* browser_readers, in the order they are tried
BrowserReaders == <<"Edge", "Chrome", "Firefox">>

\* a return statement that hands out the object itself
DictCopy_Alias(h, obj) == [heap |-> h, obj |-> obj]

\* dict(x): a new object with the mapping of x
DictCopy(h, obj) == [heap |-> Append(h, h[obj]), obj |-> Len(h) + 1]

\* one call of _load_bilibili_cookie_from_browser.  The first call meets
\* the machine's state: whether browser_cookie3 can be imported, and what
\* each reader does
LoadCookieFromBrowser ==
    /\ entry = "_load_bilibili_cookie_from_browser"
    /\ Len(returns) < MaxLoadCalls
    /\ IF browser_cookie_cache # 0
       THEN LET c == DictCopy(heap, browser_cookie_cache)
            IN  /\ heap' = c.heap
                /\ returns' = Append(returns, [obj |-> c.obj, value |-> c.heap[c.obj]])
                /\ UNCHANGED <<browser_cookie_cache, readerCalls>>
       ELSE LET \* what a reader can do: raise, or give a jar; cookies is what the
                \* filter on cookie_names and non-empty values keeps of the jar
                ReaderOutcomes ==
                    { [raises |-> TRUE, cookies |-> {}],
                      [raises |-> FALSE, cookies |-> {}],
                      [raises |-> FALSE, cookies |-> {<<"bili_jct", "j">>}],
                      [raises |-> FALSE, cookies |-> {<<"SESSDATA", "s">>, <<"bili_jct", "j">>}] }
                \* the reader loop: the first reader whose jar holds SESSDATA ends it
                ReaderLoop(jars) ==
                    LET hits == { k \in 1..Len(jars) :
                                    /\ ~jars[k].raises
                                    /\ \E c \in jars[k].cookies : c[1] = "SESSDATA" }
                    IN  IF hits = {}
                        THEN [parsed |-> {}, tried |-> Len(jars)]
                        ELSE [parsed |-> jars[Min(hits)].cookies, tried |-> Min(hits)]
            IN
            \E importable \in BOOLEAN, jars \in [1..Len(BrowserReaders) -> ReaderOutcomes] :
                LET loop   == IF importable THEN ReaderLoop(jars) ELSE [parsed |-> {}, tried |-> 0]
                    cached == Append(heap, loop.parsed)
                    \* `return dict(parsed)`, or `return {}` beside the cached {}
                    c      == DictCopy(cached, Len(cached))
                IN  /\ heap' = c.heap
                    /\ browser_cookie_cache' = Len(cached)
                    /\ returns' = Append(returns, [obj |-> c.obj, value |-> c.heap[c.obj]])
                    /\ readerCalls' = readerCalls + loop.tried
    /\ UNCHANGED <<callVars, listVars, dlVars, netVars, diag, pipeVars, scanVars, tsVars,
                   ytVars, renderVars, retryVars, mainVars>>

\* a caller changes a mapping it was handed, as get_cookies does with
\* cookies.update: it empties it or adds a key
MutateReturned ==
    /\ entry = "_load_bilibili_cookie_from_browser"
    /\ \E i \in 1..Len(returns), m \in {"clear", "add"} :
          LET obj == returns[i].obj
              new == IF m = "clear" THEN {} ELSE heap[obj] \cup {<<"x", "1">>}
          IN  /\ new # heap[obj]
              /\ heap' = [heap EXCEPT ![obj] = new]
    /\ UNCHANGED <<browser_cookie_cache, returns, readerCalls>>
    /\ UNCHANGED <<callVars, listVars, dlVars, netVars, diag, pipeVars, scanVars, tsVars,
                   ytVars, renderVars, retryVars, mainVars>>

InitCookie ==
    /\ entry = "_load_bilibili_cookie_from_browser"
    /\ pc = "idle"
    /\ IdleExcept({})

SpecCookie == InitCookie /\ [][LoadCookieFromBrowser \/ MutateReturned]_vars

-----------------------------------------------------------------------------
(* error_handlers.retry_on_failure: one call of the wrapper, one loop       *)
(* iteration (one invocation of the wrapped function) per step.  The delay *)
(* is not negative, as with the defaults, so that time.sleep returns.      *)

MaxRetries == 3

\* a test that never ends the loop
NoMoreRetries_Never(a, n) == FALSE

\* `if attempt == max_retries`
NoMoreRetries(a, n) == a = n

InitRetry ==
    /\ entry = "retry_on_failure"
    /\ pc = "loop"
    /\ max_retries \in 0..MaxRetries
    \* (Exception,) catches both classes the function raises, a narrower
    \* tuple one of them
    /\ exceptions \in {{"ValueError", "KeyError"}, {"ValueError"}}
    /\ attempt = 0
    /\ last_exception = "None"
    /\ calls = <<>>
    /\ retryOutcome = Idle.retryOutcome
    /\ IdleExcept({"retry"})

\* one iteration of `for attempt in range(max_retries + 1)`: the function
\* returns a value, returns None, or raises
RetryAttempt ==
    /\ entry = "retry_on_failure"
    /\ pc = "loop"
    /\ attempt <= max_retries
    /\ \E o \in { [raises |-> FALSE, value |-> "data"], [raises |-> FALSE, value |-> "None"],
                  [raises |-> TRUE, value |-> "ValueError"],
                  [raises |-> TRUE, value |-> "KeyError"] } :
          /\ calls' = Append(calls, o)
          /\ CASE ~o.raises ->
                    /\ retryOutcome' = [tag |-> "returned", value |-> o.value]
                    /\ pc' = "done"
                    /\ UNCHANGED <<attempt, last_exception>>
               [] o.raises /\ o.value \notin exceptions ->
                    /\ retryOutcome' = [tag |-> "raised", value |-> o.value]
                    /\ pc' = "done"
                    /\ UNCHANGED <<attempt, last_exception>>
               [] OTHER ->
                    /\ last_exception' = o.value
                    /\ IF NoMoreRetries(attempt, max_retries)
                       THEN /\ retryOutcome' = [tag |-> "raised", value |-> o.value]
                            /\ pc' = "done"
                            /\ attempt' = attempt
                       \* time.sleep(current_delay), and the next iteration
                       ELSE /\ attempt' = attempt + 1
                            /\ UNCHANGED <<retryOutcome, pc>>
    /\ UNCHANGED <<entry, max_retries, exceptions, listVars, dlVars, netVars, diag, pipeVars,
                   scanVars, tsVars, ytVars, renderVars, cookieVars, mainVars>>

SpecRetry == InitRetry /\ [][RetryAttempt]_vars

\* the loop is the only thing the thread does: an iteration that can run, runs
SpecRetryFair == SpecRetry /\ WF_vars(RetryAttempt)

-----------------------------------------------------------------------------
(* main from the URL check to the end of the subtitle extraction: the      *)
(* cache lookup, the construction of the extractor, and the invocations of *)
(* extract_subtitles through retry_on_failure, one invocation per step.    *)

\* Config.MAX_RETRY
MAX_RETRY == 3

\* main.extract_url_identifier: a BV id, else the v parameter, else the path
\* of a youtu.be link (six characters at least), else ""
ExtractUrlIdentifier(u) ==
    LET IdTokens == AlnumWords \cup {"_", "-"}
        RECURSIVE Chars(_)
        Chars(t) == IF t = <<>> THEN 0 ELSE Len(Head(t)) + Chars(Tail(t))
        Run(i) == SubSeq(u, i, RunEnd(u, i, IdTokens))
        bv == { i \in 1..Len(u) : IdAt(u, i, "BV") }
        v  == { i \in 1..Len(u) : /\ i + 3 <= Len(u)
                                  /\ u[i] \in {"?", "&"} /\ u[i + 1] = "v" /\ u[i + 2] = "="
                                  /\ Chars(Run(i + 3)) >= 6 }
        yb == { i \in 1..Len(u) : /\ OccursAt(u, <<"youtu.be", "/">>, i)
                                  /\ Chars(Run(i + 2)) >= 6 }
    IN  CASE bv # {} -> IdGroup(u, Min(bv), "BV")
          [] v # {}  -> Run(Min(v) + 3)
          [] yb # {} -> Run(Min(yb) + 2)
          [] OTHER   -> NoText

\* an extractor whose constructor creates the adapters
ExtractorInit_Eager == RegisteredAdapters

\* SubtitleExtractor.__init__: self.adapters = None
ExtractorInit == <<>>

InitMain ==
    /\ entry = "main"
    /\ pc = "start"
    /\ video_url \in InputUrls
    \* the cache file: missing, no JSON, JSON that is no object, an object
    \* without the two keys, a document, a document whose video_info is null
    /\ cacheFile \in {"absent", "badjson", "notdict", "nokeys", "valid", "nullinfo"}
    /\ subtitle_cache_hit = FALSE
    /\ cookieReads = 0
    /\ adapterBuilds = 0
    /\ adapters = <<>>
    /\ adapter = "none"
    /\ direct = FALSE
    /\ videoId = NoText
    /\ videoData = Idle.videoData
    /\ metaResp = Idle.metaResp
    /\ subMeta = Idle.subMeta
    /\ fetchOutcome = "pending"
    /\ video_info = Idle.video_info
    /\ result = Idle.result
    /\ max_retries = MAX_RETRY
    /\ exceptions = {"Exception"}
    /\ attempt = 0
    /\ last_exception = "None"
    /\ calls = <<>>
    /\ retryOutcome = Idle.retryOutcome
    /\ IdleExcept({"pipe", "retry", "main"})

\* main from validate_url to the construction of the extractor and of the
\* summarizer
MainPrepare ==
    /\ entry = "main"
    /\ pc = "start"
    /\ LET valid == StartsWith(video_url, Https) \/ StartsWith(video_url, <<"http:", "/", "/">>)
           identifier == ExtractUrlIdentifier(video_url)
           \* load_subtitle_cache returns the data
           loaded == identifier # NoText /\ cacheFile \in {"valid", "nullinfo"}
       IN  IF ~valid
           THEN pc' = "exit" /\ UNCHANGED <<subtitle_cache_hit, adapters>>      \* ValidationError
           ELSE IF loaded /\ cacheFile = "nullinfo"
           \* subtitle_data.get("video_info", {}).get("title") on None
           THEN pc' = "exit" /\ subtitle_cache_hit' = TRUE /\ UNCHANGED adapters
           ELSE /\ subtitle_cache_hit' = loaded
                /\ adapters' = ExtractorInit
                /\ pc' = IF loaded THEN "have_subtitles" ELSE "extract"
    /\ UNCHANGED <<entry, video_url, adapter, direct, videoId, videoData, metaResp, subMeta,
                   fetchOutcome, video_info, result, cacheFile, cookieReads, adapterBuilds,
                   listVars, dlVars, netVars, diag, scanVars, tsVars, ytVars, renderVars,
                   cookieVars, retryVars>>

\* one invocation of extract_subtitles by the retry wrapper: _ensure_adapters
\* (BilibiliAPI.__init__ reads the cookies), _pick_adapter, and the fetch with
\* its first request; what the servers answer decides how the invocation ends
MainExtract ==
    /\ entry = "main"
    /\ pc = "extract"
    /\ attempt <= max_retries
    /\ LET build   == adapters = <<>>
           picked  == PickAdapter(video_url)
           isDirect == picked = "bilibili" /\ Contains(video_url, DirectLinkPath)
           id      == CASE picked = "bilibili" /\ ~isDirect -> BilibiliExtractVideoId(video_url)
                        [] picked = "youtube" -> YoutubeExtractVideoId(video_url)
                        [] OTHER -> NoText
           first   == CASE isDirect -> <<DownloadRequest(1, NormalizeSubtitleUrl(video_url))>>
                        [] picked = "bilibili" /\ id # NoText -> <<MetaRequest(id)>>
                        [] picked = "youtube" /\ id # NoText -> <<PageRequest(id)>>
                        [] OTHER -> <<>>
           \* has_bilibili_cookies() before the metadata request
           asked   == IF picked = "bilibili" /\ ~isDirect /\ id # NoText THEN 1 ELSE 0
       IN  /\ adapters' = RegisteredAdapters
           /\ adapterBuilds' = adapterBuilds + (IF build THEN 1 ELSE 0)
           /\ cookieReads' = cookieReads + (IF build THEN 1 ELSE 0) + asked
           /\ adapter' = picked
           /\ direct' = isDirect
           /\ videoId' = id
           /\ requests' = requests \o first
           /\ \E o \in IF first = <<>> THEN {"None"} ELSE {"document", "None", "raise"} :
                 /\ calls' = Append(calls, [raises |-> o = "raise", value |-> o])
                 /\ IF o # "raise"
                    THEN /\ retryOutcome' = [tag |-> "returned", value |-> o]
                         /\ pc' = IF o = "document" THEN "have_subtitles" ELSE "exit"
                         /\ UNCHANGED <<attempt, last_exception>>
                    ELSE /\ last_exception' = "Exception"
                         /\ IF NoMoreRetries(attempt, max_retries)
                            THEN /\ retryOutcome' = [tag |-> "raised", value |-> "Exception"]
                                 /\ pc' = "exit"
                                 /\ attempt' = attempt
                            ELSE /\ attempt' = attempt + 1
                                 /\ UNCHANGED <<retryOutcome, pc>>
    /\ UNCHANGED <<entry, video_url, videoData, metaResp, subMeta, fetchOutcome, video_info,
                   result, responses, diag, cacheFile, subtitle_cache_hit, max_retries,
                   exceptions, listVars, dlVars, scanVars, tsVars, ytVars, renderVars,
                   cookieVars>>

SpecMain == InitMain /\ [][MainPrepare \/ MainExtract]_vars

----------------------------------------------------------------------------
(* Properties of get_subtitle_list.                                        *)

LastRequest == requests[Len(requests)]

\* the response has JSON code 0 and at least one track with a non-empty
\* subtitle_url
UsableResponse(resp) ==
    /\ resp.net = "ok"
    /\ resp.top = "obj"
    /\ resp.code = "zero"
    /\ \E i \in 1..Len(resp.tracks) : HasSubtitleUrl(resp.tracks[i])

\* the tracks of the response that carry a non-empty subtitle_url
UsableTracks(resp) == SelectSeq(resp.tracks, HasSubtitleUrl)

\* the log names the candidates in increasing order, each on its own endpoint
RequestsInCandidateOrder ==
    /\ \A i \in 1..Len(requests) :
          /\ requests[i].cand \in 1..Len(EndpointCandidates)
          /\ requests[i].url = EndpointCandidates[requests[i].cand].url
    /\ \A i, j \in 1..Len(requests) :
          i < j => requests[i].cand < requests[j].cand

\* C1: the candidates are requested in the fixed order; a candidate whose
\* response has code 0 and at least one track with a non-empty subtitle_url
\* ends the call with exactly those tracks as the result, the request of
\* that candidate being the last one issued.
C1_FirstUsableWins ==
    entry = "get_subtitle_list" =>
        /\ RequestsInCandidateOrder
        /\ (requests # <<>> /\ UsableResponse(lastResp)) =>
              /\ pc = "list_done"
              /\ listResult = [tag |-> "tracks", tracks |-> UsableTracks(lastResp)]
        /\ pc = "list_done" /\ listResult.tag = "tracks" =>
              /\ UsableResponse(lastResp)
              /\ cand = LastRequest.cand

\* C2: a candidate without usable result (transport failure, non-zero code,
\* no track with a non-empty subtitle_url) hands over to the next candidate;
\* not-available is returned only when every candidate that is not skipped
\* has been requested.
C2_FailureFallsThrough ==
    entry = "get_subtitle_list" =>
        /\ (requests # <<>> /\ ~UsableResponse(lastResp)) =>
              IF LastRequest.cand < Len(EndpointCandidates)
              THEN pc = "list" /\ cand = LastRequest.cand + 1
              ELSE pc = "list_done" /\ listResult.tag = "None"
        /\ (pc = "list_done" /\ listResult.tag = "None") =>
              \A k \in 1..Len(EndpointCandidates) :
                  \/ cid = None
                  \/ \E i \in 1..Len(requests) : requests[i].cand = k

\* the parameters candidate k requires
RequiredParams(k) == {EndpointCandidates[k].idKey, "cid"}

\* C3: no request is issued for a candidate one of whose required parameters
\* (aid or bvid, and cid) is absent.
C3_SkippedWhenParamAbsent ==
    entry = "get_subtitle_list" =>
        \A i \in 1..Len(requests) :
            RequiredParams(requests[i].cand) \subseteq ParamKeys(requests[i].params)

\* a malformed response: the body does not parse, or is not an object, or one
\* of the keys data / subtitle / subtitles is missing, null or of the wrong
\* shape
MalformedResponse(resp) ==
    \/ resp.net = "badjson"
    \/ /\ resp.net = "ok"
       /\ \/ resp.top # "obj"
          \/ /\ resp.code = "zero"
             /\ \/ resp.data # "obj"
                \/ resp.subtitle # "obj"
                \/ resp.subtitles # "list"
                \/ \E i \in 1..Len(resp.tracks) : resp.tracks[i].kind # "obj"

\* C5: a malformed response makes its candidate not-available: the chain goes
\* on to the next candidate (or ends with not-available after the last one).
C5_MalformedIsNotAvailable ==
    (entry = "get_subtitle_list" /\ requests # <<>> /\ MalformedResponse(lastResp)) =>
        \/ pc = "list" /\ cand = LastRequest.cand + 1
        \/ pc = "list_done" /\ listResult.tag = "None" /\ LastRequest.cand = Len(EndpointCandidates)

----------------------------------------------------------------------------
(* Properties of get_subtitle_content.                                     *)

StrategyHeaders == <<"full", "ua", "none">>

\* C6: at most three download requests, in the order full headers with
\* cookies, User-Agent only, no headers; a strategy is attempted only after
\* every earlier one failed; the payload of the first successful strategy is
\* returned and it is the last request; when all three fail the result is
\* not-available, whatever the last error says.
C6_DownloadStrategies ==
    entry = "get_subtitle_content" =>
        /\ Len(requests) <= 3
        /\ \A i \in 1..Len(requests) :
              /\ requests[i].kind = "download"
              /\ requests[i].cand = i
              /\ requests[i].headers = StrategyHeaders[i]
              /\ requests[i].cookies = (i = 1)
              /\ i < Len(requests) => responses[i] = "fail"
        /\ (requests # <<>> /\ lastDl.net = "ok") =>
              /\ pc = "dl_done"
              /\ dlResult = [tag |-> "payload", payload |-> lastDl.payload]
        /\ (requests # <<>> /\ lastDl.net = "fail") =>
              IF Len(requests) < 3
              THEN pc = "dl" /\ strat = Len(requests) + 1 /\ dlResult.tag = "pending"
              ELSE pc = "dl_done" /\ dlResult.tag = "None"
        /\ pc = "dl_done" =>
              \/ lastDl.net = "ok" /\ dlResult.tag = "payload"
              \/ lastDl.net = "fail" /\ Len(requests) = 3 /\ dlResult.tag = "None"

\* the third strategy succeeds after the first two failed
C6_Witness ==
    /\ entry = "get_subtitle_content"
    /\ pc = "dl_done"
    /\ responses = <<"fail", "fail", "ok">>
    /\ dlResult.tag = "payload"
    /\ dlResult.payload.events # <<>>

----------------------------------------------------------------------------
(* Properties of _extract_json_object_by_marker.  The expected slice is    *)
(* described position by position, without running the scan.               *)

\* the tokens of t from position i on begin with m
RefOccurs(t, m, i) ==
    /\ i + Len(m) - 1 <= Len(t)
    /\ \A k \in 1..Len(m) : t[i + k - 1] = m[k]

\* the first position where the marker occurs in t, 0 if it does not occur
RefMarkerAt(t, m) ==
    IF \E i \in 1..(Len(t) + 1) : RefOccurs(t, m, i)
    THEN CHOOSE i \in 1..(Len(t) + 1) :
            /\ RefOccurs(t, m, i)
            /\ \A k \in 1..(i - 1) : ~RefOccurs(t, m, k)
    ELSE 0

\* the first opening brace at or after the marker, 0 if there is none
RefBraceAt(t, m) ==
    IF RefMarkerAt(t, m) # 0 /\ \E i \in RefMarkerAt(t, m)..Len(t) : t[i] = "{"
    THEN CHOOSE i \in RefMarkerAt(t, m)..Len(t) :
            /\ t[i] = "{"
            /\ \A k \in RefMarkerAt(t, m)..(i - 1) : t[k] # "{"
    ELSE 0

\* the character at j follows an odd number of consecutive backslashes
RefAfterOddBackslashes(t, j) ==
    \E n \in 1..(j - 1) :
        /\ n % 2 = 1
        /\ \A k \in (j - n)..(j - 1) : t[k] = "\\"
        /\ (j - n = 1 \/ t[j - n - 1] # "\\")

\* RefInString(t, b)[j]: position j of t lies inside a string literal that
\* was opened at or after b; a quote toggles unless it is inside a string and
\* follows an odd number of backslashes
RefInString(t, b) ==
    LET inside[j \in b..(Len(t) + 1)] ==
            IF j = b THEN FALSE
            ELSE LET before == inside[j - 1]
                     toggles == /\ t[j - 1] = "\""
                                /\ ~(before /\ RefAfterOddBackslashes(t, j - 1))
                 IN  before # toggles
    IN  inside

\* brace depth after position i, counting only braces outside strings
RefDepth(t, b, i) ==
    Cardinality({ j \in b..i : t[j] = "{" /\ ~RefInString(t, b)[j] })
    - Cardinality({ j \in b..i : t[j] = "}" /\ ~RefInString(t, b)[j] })

\* the positions at which an object opened at b is closed
RefClosings(t, b) ==
    { i \in b..Len(t) : t[i] = "}" /\ ~RefInString(t, b)[i] /\ RefDepth(t, b, i) = 0 }

\* C8: a returned result is exactly the slice from the first opening brace
\* at or after the first occurrence of the marker to the first closing brace
\* at which the depth is back to 0, braces inside double quotes not being
\* counted and a backslash inside a string keeping the next character from
\* toggling the string state.
C8_SliceIsOuterObject ==
    (pc = "scan_done" /\ jsonResult.tag = "slice") =>
        /\ RefBraceAt(text, marker) # 0
        /\ RefClosings(text, RefBraceAt(text, marker)) # {}
        /\ jsonResult.slice =
              SubSeq(text, RefBraceAt(text, marker),
                     Min(RefClosings(text, RefBraceAt(text, marker))))

\* the marker followed by {"a":"}\"}"} yields the whole outer object
C8_Witness ==
    /\ pc = "scan_done"
    /\ text = ExampleText
    /\ marker = <<"m">>
    /\ jsonResult = [tag |-> "slice", slice |-> SubSeq(ExampleText, 2, 13)]

\* the three cases in which nothing is found
RefNotFound(t, m) ==
    \/ RefMarkerAt(t, m) = 0
    \/ RefBraceAt(t, m) = 0
    \/ RefClosings(t, RefBraceAt(t, m)) = {}

\* C9: not-found is returned exactly when the marker does not occur, no
\* opening brace occurs at or after it, or the text ends before the depth
\* is back to 0 (an unterminated string included); otherwise a slice is
\* returned; and the scan always terminates.
C9_NotFoundCases ==
    /\ [](pc = "scan_done" =>
            /\ jsonResult.tag \in {"None", "slice"}
            /\ (jsonResult.tag = "None") <=> RefNotFound(text, marker))
    /\ <>(pc = "scan_done")

\* an unterminated string literal hides the closing brace
C9_Witness ==
    /\ pc = "scan_done"
    /\ text = <<"m", "{", "\"", "}">>
    /\ marker = <<"m">>
    /\ in_string
    /\ jsonResult.tag = "None"

----------------------------------------------------------------------------
(* Properties of the timestamp formatters, read off the emitted string.    *)

IsDigit(c) == \E d \in 1..10 : DigitChars[d] = c

DigitValue(c) == (CHOOSE d \in 1..10 : DigitChars[d] = c) - 1

\* the number a run of digits denotes
RECURSIVE NumberOf(_)
NumberOf(s) ==
    IF s = <<>> THEN 0
    ELSE 10 * NumberOf(SubSeq(s, 1, Len(s) - 1)) + DigitValue(s[Len(s)])

\* the numbers of the maximal runs of digits of s, from left to right
RECURSIVE StampFields(_)
StampFields(s) ==
    IF s = <<>> THEN <<>>
    ELSE IF ~IsDigit(s[1]) THEN StampFields(Tail(s))
    ELSE LET stops == { i \in 1..Len(s) : ~IsDigit(s[i]) }
             run   == IF stops = {} THEN Len(s) ELSE Min(stops) - 1
         IN  <<NumberOf(SubSeq(s, 1, run))>> \o StampFields(SubSeq(s, run + 1, Len(s)))

\* the characters of s that are no digits
StampSeparators(s) == SelectSeq(s, LAMBDA c : ~IsDigit(c))

Abs(x) == IF x < 0 THEN -x ELSE x

\* the input, negative values counting as 0: its whole seconds and the
\* ticks beyond them
InputWhole == (IF seconds < 0 THEN 0 ELSE seconds) \div TicksPerSecond

InputFrac == (IF seconds < 0 THEN 0 ELSE seconds) % TicksPerSecond

\* C10: for every seconds value, negative ones counting as 0, SRT and VTT
\* emit minutes in 0..59, seconds in 0..59 and milliseconds in 0..999, LRC
\* emits seconds in 0..59 and centiseconds in 0..99, and the emitted value is
\* the input rounded to the format's resolution, so a fraction that rounds
\* up to a whole unit is carried into the next second and minute.
C10_TimestampFieldsInRange ==
    pc = "ts_done" =>
        LET f == StampFields(stamp)
        IN  /\ tsFormat \in {"srt", "vtt"} =>
                /\ StampSeparators(stamp) =
                      <<":", ":", IF tsFormat = "srt" THEN "," ELSE ".">>
                /\ Len(f) = 4
                /\ f[2] \in 0..59
                /\ f[3] \in 0..59
                /\ f[4] \in 0..999
                /\ 2 * Abs(((f[1] * 60 + f[2]) * 60 + f[3] - InputWhole) * 1000 * TicksPerSecond
                           + f[4] * TicksPerSecond - InputFrac * 1000) <= TicksPerSecond
            /\ tsFormat = "lrc" =>
                /\ StampSeparators(stamp) = <<":", ".">>
                /\ Len(f) = 3
                /\ f[2] \in 0..59
                /\ f[3] \in 0..99
                /\ 2 * Abs((f[1] * 60 + f[2] - InputWhole) * 100 * TicksPerSecond
                           + f[3] * TicksPerSecond - InputFrac * 100) <= TicksPerSecond

\* 59.996 s in LRC: the centiseconds carry into the second and the minute
C10_Witness ==
    /\ pc = "ts_done"
    /\ tsFormat = "lrc"
    /\ seconds = 59 * TicksPerSecond + (996 * TicksPerSecond) \div 1000
    /\ stamp = <<"0", "1", ":", "0", "0", ".", "0", "0">>

\* the lengths of the maximal runs of digits of s, from left to right
RECURSIVE StampWidths(_)
StampWidths(s) ==
    IF s = <<>> THEN <<>>
    ELSE IF ~IsDigit(s[1]) THEN StampWidths(Tail(s))
    ELSE LET stops == { i \in 1..Len(s) : ~IsDigit(s[i]) }
             run   == IF stops = {} THEN Len(s) ELSE Min(stops) - 1
         IN  <<run>> \o StampWidths(SubSeq(s, run + 1, Len(s)))

\* the separators each format writes between its components
FormatSeparators(f) ==
    CASE f = "txt" -> <<":", ":">>
      [] f = "srt" -> <<":", ":", ",">>
      [] f = "vtt" -> <<":", ":", ".">>
      [] f = "lrc" -> <<":", ".">>

\* the widths of the components after the first one
FormatTailWidths(f) ==
    CASE f = "txt" -> <<2, 2>>
      [] f = "srt" -> <<2, 2, 3>>
      [] f = "vtt" -> <<2, 2, 3>>
      [] f = "lrc" -> <<2, 2>>

\* C11 as stated: for every seconds >= 0 the output of each formatter
\* matches its fixed-width pattern, two digits for every component (three
\* for the milliseconds), whatever the magnitude of the input.
C11_FixedWidthPattern ==
    (pc = "ts_done" /\ seconds >= 0) =>
        /\ StampSeparators(stamp) = FormatSeparators(tsFormat)
        /\ StampWidths(stamp) = <<2>> \o FormatTailWidths(tsFormat)

\* C11 amended: for every seconds >= 0 the output consists of the format's
\* components and separators; every component after the first has exactly
\* its fixed width; the first one (hours, minutes for LRC) is zero-padded
\* to two digits and is wider than two digits exactly when its value is 100
\* or more, in which case it is written without leading zero.
C11_FixedWidthExceptFirst ==
    (pc = "ts_done" /\ seconds >= 0) =>
        LET w == StampWidths(stamp)
        IN  /\ StampSeparators(stamp) = FormatSeparators(tsFormat)
            /\ Len(w) = Len(FormatTailWidths(tsFormat)) + 1
            /\ Tail(w) = FormatTailWidths(tsFormat)
            /\ w[1] >= 2
            /\ (w[1] > 2) <=> (StampFields(stamp)[1] >= 100)
            /\ w[1] > 2 => stamp[1] # "0"

\* 100 hours in SRT: the hours take three digits
C11_Witness ==
    /\ pc = "ts_done"
    /\ tsFormat = "srt"
    /\ seconds = 360000 * TicksPerSecond
    /\ stamp = <<"1", "0", "0", ":", "0", "0", ":", "0", "0", ",", "0", "0", "0">>

----------------------------------------------------------------------------
(* Properties of extract_subtitles and the adapters.                       *)

\* the requests each adapter's fetch issues
FetchRequestKinds(name) ==
    CASE name = "bilibili" -> {"meta", "list", "download"}
      [] name = "youtube"  -> {"page", "caption"}
      [] OTHER             -> {}

\* C4: whatever the URL and the HTTP outcomes, both adapters' fetch ends by
\* returning a bundle or None; no exception leaves an adapter.
C4_AdaptersNeverRaise == fetchOutcome # "raised"

\* C7: extract_subtitles selects the first adapter, in the registration order
\* [Bilibili, YouTube], whose matches(url) holds, and invokes only that
\* adapter's fetch; when none matches it returns not-available ("unsupported
\* platform") without invoking any fetch and without raising.
C7_FirstMatchingAdapter ==
    (entry = "extract_subtitles" /\ pc # "start") =>
        /\ adapters = <<"bilibili", "youtube">>
        /\ adapter = IF BilibiliMatches(video_url) THEN "bilibili"
                     ELSE IF YoutubeMatches(video_url) THEN "youtube"
                     ELSE "none"
        /\ \A i \in 1..Len(requests) : requests[i].kind \in FetchRequestKinds(adapter)
        /\ (adapter = "none") <=> (fetchOutcome = "notcalled")
        /\ adapter = "none" =>
              /\ pc = "done"
              /\ result.tag = "None"
              /\ requests = <<>>
              /\ diag = <<"unsupported platform">>

\* a URL both adapters match goes to the Bilibili adapter, which sends its
\* metadata request
C7_Witness ==
    /\ entry = "extract_subtitles"
    /\ BilibiliMatches(video_url) /\ YoutubeMatches(video_url)
    /\ adapter = "bilibili"
    /\ Len(requests) = 1
    /\ requests[1].kind = "meta"
    /\ fetchOutcome = "pending"

----------------------------------------------------------------------------
(* Properties of _pick_caption_track.                                      *)

\* the language code as the selection reads it, in lower case: two-letter
\* prefixes are compared letter by letter, in either case
RefStartsWith(t, lower, upper) ==
    /\ t.langKey = "present"
    /\ Len(t.lang) >= 2
    /\ t.lang[1] \in {lower[1], upper[1]}
    /\ t.lang[2] \in {lower[2], upper[2]}

\* the language rank: zh first, en second, every other code last
RefLangRank(t) ==
    IF RefStartsWith(t, <<"z", "h">>, <<"Z", "H">>) THEN 0
    ELSE IF RefStartsWith(t, <<"e", "n">>, <<"E", "N">>) THEN 1
    ELSE 2

\* track a comes strictly before track b in the preference order
RefPreferred(a, b) ==
    \/ ~a.asr /\ b.asr
    \/ a.asr = b.asr /\ RefLangRank(a) < RefLangRank(b)

\* C12: for every non-empty track list the selected track is minimal in the
\* order (human-authored before machine-generated, then zh, en, others) and
\* is the earliest such track of the list; so a human-authored track beats
\* every machine-generated one.
C12_PickIsFirstLeast ==
    (pc = "pick_done" /\ player.tracks # <<>>) =>
        /\ \E i \in 1..Len(player.tracks) :
              /\ ytTrack = player.tracks[i]
              /\ \A j \in 1..Len(player.tracks) :
                    /\ ~RefPreferred(player.tracks[j], player.tracks[i])
                    /\ j < i => RefPreferred(player.tracks[i], player.tracks[j])
        /\ (\E j \in 1..Len(player.tracks) : ~player.tracks[j].asr) => ~ytTrack.asr

\* [ja/asr, en, zh]: the zh track is selected
C12_Witness ==
    /\ pc = "pick_done"
    /\ Len(player.tracks) = 3
    /\ player.tracks[1].asr /\ player.tracks[1].lang = <<"j", "a">>
    /\ ~player.tracks[2].asr /\ player.tracks[2].lang = <<"e", "n">>
    /\ ~player.tracks[3].asr /\ player.tracks[3].lang = <<"z", "h">>
    /\ ytTrack = player.tracks[3]

----------------------------------------------------------------------------
(* Properties of get_ai_subtitle_data.                                     *)

\* the language code of the track contains "ai", in either case
RefHasAi(t) ==
    /\ t.lanKey = "present"
    /\ \E i \in 1..(Len(t.lan) - 1) : t.lan[i] \in {"a", "A"} /\ t.lan[i + 1] \in {"i", "I"}

\* the track to download: the first one with an AI language code, the first
\* track of the list when there is none
RefAiTrack(tracks) ==
    IF \E i \in 1..Len(tracks) : RefHasAi(tracks[i])
    THEN tracks[CHOOSE i \in 1..Len(tracks) :
                    /\ RefHasAi(tracks[i])
                    /\ \A j \in 1..(i - 1) : ~RefHasAi(tracks[j])]
    ELSE tracks[1]

\* C13: once the track list is there, get_ai_subtitle_data goes on to
\* download the first track whose language code contains "ai" in either
\* case, the first track of the list when there is none; the track that is
\* downloaded is the one reported as subtitle_meta.
C13_AiTrackPreferred ==
    /\ [][(pc = "list_done" /\ entry = "extract_subtitles" /\ listResult.tag = "tracks") =>
            /\ pc' = "dl"
            /\ subMeta' = RefAiTrack(listResult.tracks)
            /\ dlArg' = RefAiTrack(listResult.tracks).url]_vars
    /\ []((entry = "extract_subtitles" /\ adapter = "bilibili" /\ ~direct) =>
            \A i \in 1..Len(requests) :
                requests[i].kind = "download" =>
                    requests[i].url = NormalizeSubtitleUrl(subMeta.url))

----------------------------------------------------------------------------
(* Properties of the URL rewriting of get_subtitle_content.                *)

\* the URL the requests are expected to carry, read off the argument
RefRequestedUrl(u) ==
    IF Len(u) >= 2 /\ u[1] = "/" /\ u[2] = "/"
    THEN <<"https:">> \o u
    ELSE IF Len(u) >= 1 /\ u[1] = "/"
         THEN <<"https:", "/", "/", "aisubtitle.hdslb.com">> \o u
         ELSE u

\* C14: a subtitle URL //host/path is requested as https://host/path and a
\* URL /path as https://aisubtitle.hdslb.com/path, so that every request of
\* such an input goes to an absolute https:// URL; a URL with a scheme is
\* requested unchanged; all strategies request the same URL.
C14_RequestsUseNormalizedUrl ==
    entry = "get_subtitle_content" =>
        \A i \in 1..Len(requests) :
            /\ requests[i].url = RefRequestedUrl(dlArg)
            /\ requests[i].url = requests[1].url
            /\ dlArg[1] = "/" =>
                  /\ SubSeq(requests[i].url, 1, 3) = <<"https:", "/", "/">>
                  /\ requests[i].url[4] # "/"
            /\ dlArg[1] # "/" => requests[i].url = dlArg

\* a bare path was given, two strategies failed and the third was tried
C14_Witness ==
    /\ entry = "get_subtitle_content"
    /\ dlArg = <<"/", "bfs", "/", "ai_subtitle", "/", "c.json">>
    /\ Len(requests) = 3
    /\ requests[3].url[4] = "aisubtitle.hdslb.com"
    /\ pc = "dl_done"

----------------------------------------------------------------------------
(* Properties of the empty-body guard.                                     *)

\* a transcript event that has segments and text left after cleaning
RefSurvives(e) ==
    /\ e.kind = "obj"
    /\ e.segs = "list"
    /\ e.texts # <<>>
    /\ EventText(e) # <<>>

\* the downloaded payload holds no event: it has no body, or an empty one
RefNoEvents(p) ==
    \/ p.top # "obj"
    \/ p.body \in {"missing", "null"}
    \/ p.body = "list" /\ p.events = <<>>

\* C15 (documents): every document extract_subtitles returns has at least
\* one event and a non-empty rendered text.
C15_DocumentsAreNotEmpty ==
    result.tag = "document" => result.events # <<>> /\ result.subtitles # <<>>

\* C15: an event list with zero entries never yields a document: the YouTube
\* adapter returns None when the transcript was downloaded and no event of it
\* survives cleaning, extract_subtitles returns None when the bundle's body is
\* empty or missing, and every document has events and a non-empty text.
C15_EmptyBodyGuard ==
    /\ [][(pc = "caption" /\ caption'.net = "ok"
           /\ \A i \in 1..Len(caption'.events) : ~RefSurvives(caption'.events[i]))
          => (captionBody'.tag = "None" /\ result'.tag = "None")]_vars
    /\ [][(pc = "dl_done" /\ entry = "extract_subtitles" /\ dlResult.tag = "payload"
           /\ RefNoEvents(dlResult.payload))
          => result'.tag = "None"]_vars
    /\ []C15_DocumentsAreNotEmpty

----------------------------------------------------------------------------
(* Properties of _format_subtitle_body and of the reading-document pass.   *)

\* the format a call renders: the argument in lower case, txt when it is
\* empty, missing or none of the four names
RefFormat(f) ==
    IF Lower(f) \in { <<"s", "r", "t">>, <<"v", "t", "t">>, <<"l", "r", "c">> }
    THEN Lower(f) ELSE <<"t", "x", "t">>

RefUnknownFormat(f) ==
    Lower(f) \notin { <<"t", "x", "t">>, <<"s", "r", "t">>, <<"v", "t", "t">>, <<"l", "r", "c">> }

\* the lines of a text ("" has none)
RefLines(t) == IF t = <<>> THEN <<>> ELSE SplitOn(t, "\n")

\* C16: a non-empty body rendered to SRT and passed through
\* _extract_text_content leaves only text lines: no index line, no range
\* line, and every line of the output is the text (a line of the text) of
\* an event of the body.
C16_SrtRoundTrip ==
    (pc = "stripped" /\ body # <<>> /\ RefFormat(subtitle_format) = <<"s", "r", "t">>) =>
        \A k \in 1..Len(RefLines(text_content)) :
            /\ ~Contains(RefLines(text_content)[k], <<"-", "-", ">">>)
            /\ \E i \in 1..Len(body) :
                  \E m \in 1..Len(RefLines(body[i].content)) :
                      RefLines(text_content)[k] = RefLines(body[i].content)[m]

\* C17: for a non-empty body and a format that is none of txt, srt, vtt and
\* lrc in any case (the empty and the missing format included)
\* _format_subtitle_body returns the text of the txt rendering of the body,
\* after at most one nested call.
C17_UnknownFormatIsTxt ==
    (pc # "render" /\ body # <<>> /\ RefUnknownFormat(subtitle_format)) =>
        /\ formatted.tag = "text"
        /\ formatted.text = FormatSubtitleBody(body, <<"t", "x", "t">>).text
        /\ formatted.text # <<>>
        /\ formatted.calls <= 2
        /\ subtitle_format \notin {NoText, None} => formatted.calls = 2

\* two events were rendered with the unknown format "ass"
C17_Witness ==
    /\ pc = "rendered"
    /\ Len(body) = 2
    /\ subtitle_format = <<"a", "s", "s">>
    /\ formatted.calls = 2
    /\ formatted.text[1] = "["

\* C20: for an event whose end lies before its start the txt, SRT and VTT
\* renderings write the start timestamp as the end timestamp.
C20_EndClampedToStart ==
    (pc # "render" /\ formatted.tag = "text") =>
        \A i \in 1..Len(body) :
            body[i].to < body[i].from =>
                CASE RefFormat(subtitle_format) = <<"t", "x", "t">> ->
                        Contains(formatted.text,
                                 <<"[">> \o FormatTimestamp(body[i].from) \o <<" ", "-", " ">>
                                 \o FormatTimestamp(body[i].from) \o <<"]">>)
                  [] RefFormat(subtitle_format) = <<"s", "r", "t">> ->
                        Contains(formatted.text,
                                 FormatTimestampSrt(body[i].from) \o <<" ", "-", "-", ">", " ">>
                                 \o FormatTimestampSrt(body[i].from) \o <<"\n">>)
                  [] RefFormat(subtitle_format) = <<"v", "t", "t">> ->
                        Contains(formatted.text,
                                 FormatTimestampVtt(body[i].from) \o <<" ", "-", "-", ">", " ">>
                                 \o FormatTimestampVtt(body[i].from) \o <<"\n">>)
                  [] OTHER -> TRUE

----------------------------------------------------------------------------
(* Properties of _download_caption_track and _ensure_json3_url.            *)

\* the base URL with & and &amp; read as "&"
RefUnescaped(u) == [i \in 1..Len(u) |-> IF u[i] \in {"\\u0026", "&amp;"} THEN "&" ELSE u[i]]

\* the name=value fields of the query of u, as written
RefFields(u) == IF UrlParse(u).query = <<>> THEN <<>> ELSE SplitOn(UrlParse(u).query, "&")

RefFieldName(f) == SubSeq(f, 1, FirstOf(f, {"="}) - 1)

\* C18: the URL that is requested has exactly one fmt parameter, fmt=json3;
\* every other parameter of the unescaped base URL is still in it with its
\* value; scheme, host, path and fragment are those of the base URL.
C18_OnlyFmtChanges ==
    (entry = "_download_caption_track" /\ requests # <<>>) =>
        LET given == RefUnescaped(ytTrack.baseUrl)
            asked == requests[1].url
        IN  /\ Cardinality({ i \in 1..Len(RefFields(asked)) :
                               RefFieldName(RefFields(asked)[i]) = <<"fmt">> }) = 1
            /\ \E i \in 1..Len(RefFields(asked)) :
                   RefFields(asked)[i] = <<"fmt", "=", "json3">>
            /\ \A i \in 1..Len(RefFields(given)) :
                   RefFieldName(RefFields(given)[i]) # <<"fmt">> =>
                       \E j \in 1..Len(RefFields(asked)) :
                           RefFields(asked)[j] = RefFields(given)[i]
            /\ UrlParse(asked).scheme = UrlParse(given).scheme
            /\ UrlParse(asked).netloc = UrlParse(given).netloc
            /\ UrlParse(asked).path = UrlParse(given).path
            /\ UrlParse(asked).fragment = UrlParse(given).fragment

\* the positions of the transcript events that have segments and text
RefKept(es) == { i \in 1..Len(es) : RefSurvives(es[i]) }

\* the position in es of the k-th event that is kept
RefKth(es, k) == CHOOSE i \in RefKept(es) : Cardinality({ j \in RefKept(es) : j <= i }) = k

\* C19: the body _download_caption_track returns has one entry for every
\* transcript event with segments and non-empty cleaned text, in transcript
\* order; an entry ends at start + duration when the duration is positive
\* and 1500 ms after its start otherwise, so it ends after it starts, and
\* its text is not empty.
C19_BodyOfKeptEvents ==
    (entry = "_download_caption_track" /\ captionBody.tag = "body") =>
        /\ Len(captionBody.body) = Cardinality(RefKept(caption.events))
        /\ \A k \in 1..Len(captionBody.body) :
              LET e == caption.events[RefKth(caption.events, k)]
                  b == captionBody.body[k]
                  \* milliseconds as ticks
                  Ticks(ms) == (ms * TicksPerSecond) \div 1000
              IN  /\ b.from = Ticks(e.start)
                  /\ e.dur > 0 => b.to = Ticks(e.start + e.dur)
                  /\ e.dur <= 0 => b.to = Ticks(e.start + 1500)
                  /\ b.to > b.from
                  /\ b.content # <<>>
                  /\ b.content = EventText(e)

\* a transcript of an event without text and one with a negative duration
C19_Witness ==
    /\ entry = "_download_caption_track"
    /\ captionBody.tag = "body"
    /\ Len(caption.events) = 2
    /\ Len(captionBody.body) = 1
    /\ caption.events[2].dur < 0
    /\ captionBody.body[1].from = (7000 * TicksPerSecond) \div 1000
    /\ captionBody.body[1].to = (8500 * TicksPerSecond) \div 1000

----------------------------------------------------------------------------
(* Properties of the rendered document.                                    *)

\* the cues of the events i, i + 1, ... of es in format fmt, one after the
\* other in the order of es
RECURSIVE RefCues(_, _, _)
RefCues(fmt, es, i) ==
    LET e == es[i]
        arrow == <<" ", "-", "-", ">", " ">>
        cue == CASE fmt = <<"s", "r", "t">> ->
                      Str(i) \o <<"\n">> \o FormatTimestampSrt(e.from) \o arrow
                      \o FormatTimestampSrt(e.to) \o <<"\n">> \o e.content
                 [] fmt = <<"v", "t", "t">> ->
                      FormatTimestampVtt(e.from) \o arrow \o FormatTimestampVtt(e.to)
                      \o <<"\n">> \o e.content
                 [] fmt = <<"l", "r", "c">> ->
                      <<"[">> \o FormatTimestampLrc(e.from) \o <<"]", " ">> \o e.content
                 [] OTHER ->
                      <<"[">> \o FormatTimestamp(e.from) \o <<" ", "-", " ">>
                      \o FormatTimestamp(e.to) \o <<"]", " ">> \o e.content
        gap == IF fmt \in {<<"s", "r", "t">>, <<"v", "t", "t">>} THEN <<"\n", "\n">> ELSE <<"\n">>
    IN  IF i > Len(es) THEN <<>>
        ELSE IF i = Len(es) THEN cue
        ELSE cue \o gap \o RefCues(fmt, es, i + 1)

\* the events the adapter's bundle held
RefBundleEvents == IF adapter = "youtube" THEN captionBody.body ELSE dlResult.payload.events

\* C21: the text of a document is one cue (txt, LRC: one line) per event, in
\* the order of the event list, the SRT cues numbered 1, 2, ..., n, whatever
\* the order of the start times; the body of the document is the event list
\* of the bundle, unmodified.
C21_OneCuePerEventInOrder ==
    result.tag = "document" =>
        /\ result.events = RefBundleEvents
        /\ result.subtitles =
              (IF RefFormat(result.format) = <<"v", "t", "t">> THEN <<"WEBVTT", "\n", "\n">>
               ELSE <<>>)
              \o RefCues(RefFormat(result.format), result.events, 1)

\* an SRT document of two events, the second starting before the first
C21_Witness ==
    /\ result.tag = "document"
    /\ result.format = <<"s", "r", "t">>
    /\ Len(result.events) = 2
    /\ result.events[2].from < result.events[1].from
    /\ Contains(result.subtitles, <<"\n", "\n", "2", "\n">>)

-----------------------------------------------------------------------------
(* Properties of the direct-link branch of the Bilibili adapter.           *)

\* the pipeline has ended, by a return or by an exception
RefEnded == pc \in {"done", "raised"}

\* C22: a direct caption-data link issues download requests only, three at
\* most; when the download returned caption data the adapter returns a bundle
\* with the placeholder title, an empty owner and duration 0 (and the
\* document made of it has source "subtitle"); when the download failed the
\* outcome is not-available
C22_DirectLinkOnlyDownloads ==
    direct =>
        /\ \A i \in 1..Len(requests) : requests[i].kind = "download"
        /\ Len(requests) <= 3
        /\ (RefEnded /\ ~PayloadFalsy(dlResult)) =>
              /\ fetchOutcome = "bundle"
              /\ video_info = [title |-> <<"Bilibili AI Subtitle">>, owner |-> <<>>, duration |-> 0]
              /\ result.tag = "document" => result.source = "subtitle"
        /\ (RefEnded /\ dlResult.tag = "None") =>
              /\ fetchOutcome = "None"
              /\ result.tag = "None"

-----------------------------------------------------------------------------
(* Properties of the staged Bilibili fetch.                                *)

\* position of a request's kind in the order metadata, track list, download
RefStage(kind) == CASE kind = "meta" -> 1 [] kind = "list" -> 2 [] kind = "download" -> 3
                    [] OTHER -> 0

RefIssued(kind) == \E i \in 1..Len(requests) : requests[i].kind = kind

\* the metadata the adapter received holds no cid: neither in the first page
\* nor, without pages, under the key cid
RefNoCid ==
    /\ videoData.net = "ok" /\ videoData.top = "obj" /\ videoData.code = "zero"
    /\ videoData.data = "obj"
    /\ videoData.pages # "wrong"
    /\ FirstPageCid(videoData) = None

\* C23: a Bilibili fetch of a video link requests metadata, then the track
\* list, then the track, a stage being requested only after the one before
\* succeeded; a metadata response with a non-zero code, or metadata without
\* cid, ends the fetch as not-available with no list and no download request;
\* a track list no candidate of which succeeded is followed by no download
C23_StagesInOrder ==
    (adapter = "bilibili" /\ ~direct) =>
        /\ \A i, j \in 1..Len(requests) :
              i < j => /\ RefStage(requests[i].kind) >= 1
                       /\ RefStage(requests[i].kind) <= RefStage(requests[j].kind)
        /\ RefIssued("list") =>
              /\ RefIssued("meta")
              /\ metaResp.net = "ok" /\ metaResp.code = "zero"
              /\ cid # None
        /\ RefIssued("download") =>
              /\ RefIssued("list")
              /\ subMeta.kind # "none"
        /\ (metaResp.net = "ok" /\ metaResp.top = "obj" /\ metaResp.code = "nonzero") =>
              /\ fetchOutcome = "None"
              /\ ~RefIssued("list") /\ ~RefIssued("download")
        /\ RefNoCid =>
              /\ fetchOutcome = "None"
              /\ ~RefIssued("list") /\ ~RefIssued("download")
        /\ (pc = "list_done" /\ listResult.tag = "None") => ~RefIssued("download")
        /\ (RefEnded /\ RefIssued("list") /\ subMeta.kind = "none") => ~RefIssued("download")

-----------------------------------------------------------------------------
(* Properties of the browser cookie lookup.                                *)

\* C24: once a call of the loader has completed, no step invokes a browser
\* reader, changes which object is cached or changes the cached mapping
\* (whatever callers do to the mappings they were handed), and every later
\* call returns the mapping the first call returned; the readers are invoked
\* at most once each
C24_LookupMemoized ==
    [][ /\ browser_cookie_cache # 0 =>
              /\ readerCalls' = readerCalls
              /\ browser_cookie_cache' = browser_cookie_cache
              /\ heap'[browser_cookie_cache] = heap[browser_cookie_cache]
        /\ (returns # <<>> /\ Len(returns') > Len(returns)) =>
              returns'[Len(returns')].value = returns[1].value
        /\ readerCalls' <= Len(BrowserReaders) ]_vars

\* C24 happens: a first call found cookies in the second browser, the caller
\* emptied the mapping it got, and a later call still returned the cookies
C24_Witness ==
    /\ Len(returns) = 2
    /\ readerCalls = 2
    /\ heap[returns[1].obj] = {}
    /\ returns[2].value = {<<"SESSDATA", "s">>, <<"bili_jct", "j">>}

-----------------------------------------------------------------------------
(* Properties of the adapter choice.                                       *)

\* C25: once extract_subtitles has picked its adapter, a URL that the YouTube
\* adapter's matches accepts is handled by the YouTube adapter, and the
\* Bilibili adapter's matches does not accept it as well
C25_YoutubeUrlsGoToYoutube ==
    (entry = "extract_subtitles" /\ pc # "start" /\ YoutubeMatches(video_url)) =>
        /\ adapter = "youtube"
        /\ ~BilibiliMatches(video_url)

-----------------------------------------------------------------------------
(* Properties of the requests that carry the session cookies.              *)

\* the host of an absolute URL (the token after the scheme and the slashes)
RefHost(u) == IF Len(u) >= 4 /\ u[2] = "/" /\ u[3] = "/" THEN u[4] ELSE ""

\* C26: a request that carries the Bilibili cookies goes to api.bilibili.com
\* or to aisubtitle.hdslb.com; the second and third download attempt and
\* the YouTube requests carry no cookies
C26_CookiesOnlyToKnownHosts ==
    \A i \in 1..Len(requests) :
        /\ requests[i].cookies => RefHost(requests[i].url) \in {"api.bilibili.com", CdnHost}
        /\ (requests[i].kind = "download" /\ requests[i].cand \in {2, 3}) => ~requests[i].cookies
        /\ requests[i].kind \in {"page", "caption"} => ~requests[i].cookies

-----------------------------------------------------------------------------
(* Properties of the is_ai flag.                                           *)

\* the selected track is machine-generated: a YouTube track of kind asr, a
\* Bilibili track whose language code carries the marker ai
RefMachineGenerated ==
    IF adapter = "youtube"
    THEN ytTrack.asr
    ELSE subMeta.lanKey = "present" /\ Contains(Lower(subMeta.lan), <<"a", "i">>)

\* C29: the document's is_ai flag tells whether the selected track is
\* machine-generated
C29_IsAiMeansMachineGenerated ==
    result.tag = "document" => (result.is_ai <=> RefMachineGenerated)

-----------------------------------------------------------------------------
(* Properties of the timestamp-stripping pass.                             *)

\* the texts of the events, one line each
RECURSIVE RefTexts(_)
RefTexts(es) == IF es = <<>> THEN <<>> ELSE <<Head(es).content>> \o RefTexts(Tail(es))

\* C30: for a body whose texts are non-empty single lines, the reading pass
\* over the SRT rendering returns the texts of the events, one line per
\* event, in order
C30_StrippingKeepsTexts ==
    (/\ pc = "stripped"
     /\ RefFormat(subtitle_format) = <<"s", "r", "t">>
     /\ \A i \in 1..Len(body) : body[i].content # <<>> /\ ~Contains(body[i].content, <<"\n">>))
    => RefLines(text_content) = RefTexts(body)

-----------------------------------------------------------------------------
(* Properties of retry_on_failure.                                         *)

\* the invocations before the last one all raised a listed exception
RefEarlierAllCaught ==
    \A i \in 1..(Len(calls) - 1) : calls[i].raises /\ calls[i].value \in exceptions

\* C28: the wrapped function is invoked at most max_retries + 1 times, and
\* again only after an invocation raised a listed exception; the wrapper
\* returns the result of the first invocation that returns (None included),
\* raises the last exception after max_retries + 1 failures, and it ends
C28_RetryBounded ==
    /\ [](/\ Len(calls) <= max_retries + 1
          /\ RefEarlierAllCaught
          /\ retryOutcome.tag = "pending" =>
                (calls # <<>> => calls[Len(calls)].raises /\ calls[Len(calls)].value \in exceptions)
          /\ retryOutcome.tag = "returned" =>
                /\ ~calls[Len(calls)].raises
                /\ retryOutcome.value = calls[Len(calls)].value
          /\ retryOutcome.tag = "raised" =>
                /\ calls[Len(calls)].raises
                /\ retryOutcome.value = calls[Len(calls)].value
                /\ calls[Len(calls)].value \in exceptions => Len(calls) = max_retries + 1
          /\ (Len(calls) = max_retries + 1 /\ calls[Len(calls)].raises) =>
                /\ retryOutcome.tag = "raised"
                /\ retryOutcome.value = calls[Len(calls)].value)
    /\ <>(retryOutcome.tag # "pending")

\* C28 happens: with max_retries = 2 the function failed twice and then
\* returned None, which the wrapper returned
C28_Witness ==
    /\ max_retries = 2
    /\ Len(calls) = 3
    /\ retryOutcome = [tag |-> "returned", value |-> "None"]

-----------------------------------------------------------------------------
(* Properties of the lazy creation of the adapters.                        *)

\* C27: the adapter list of an extractor is created at most once; a new
\* extractor has no adapters and has read no cookies; and in a run whose
\* cache lookup succeeded extract_subtitles is not invoked, no adapter
\* exists, no cookies are read and no request is issued
C27_AdaptersLazy ==
    /\ adapterBuilds <= 1
    /\ calls = <<>> => (adapters = <<>> /\ cookieReads = 0 /\ adapterBuilds = 0)
    /\ subtitle_cache_hit =>
          /\ calls = <<>>
          /\ adapters = <<>>
          /\ cookieReads = 0
          /\ requests = <<>>

\* C27 happens: the cache entry was found and the run went on with it
C27_Witness == entry = "main" /\ subtitle_cache_hit /\ pc = "have_subtitles"

====
